---- MODULE Spec2Model ----
(***************************************************************************)
(* Model of the logging layer of micro-holtye (internal/pkg/logger).       *)
(*                                                                         *)
(*  Part 1  the process-wide logger registry of global.go: the slot        *)
(*          globalLogger, its sync.RWMutex and the sync.Once that guards   *)
(*          the lazily built default, driven by concurrent goroutines.     *)
(*  Part 2  logger instances (core zapLogger, multi-output                 *)
(*          zapLoggerInternal, tracedLogger wrapper), their construction   *)
(*          by the factory and the records they emit.                      *)
(***************************************************************************)
EXTENDS Integers, Sequences, FiniteSets, TLC

(***************************************************************************)
(* Bounds of the model.                                                    *)
(***************************************************************************)
NumProcs == 3
NumBusy == 2
NumLoggers == 1
MaxCalls == 4
MaxLazyCalls == 5

Procs == 1..NumProcs
\* loggers that callers hand to SetGlobalLogger / ReplaceGlobalLogger
Loggers == 1..NumLoggers
\* the nil interface value of the slot
Nil == 0
\* identity of the n-th logger built by NewLoggerFromEnv, and of the n-th
\* &fallbackLogger{} allocated when that construction fails
DefaultBase == 100
FallbackBase == 200
DefaultId(n) == DefaultBase + n
FallbackId(n) == FallbackBase + n
IsFallback(l) == l >= FallbackBase

VARIABLES
  \* ---- registry (global.go) ----
  globalLogger,   \* var globalLogger Logger
  lockW,          \* globalLoggerLock: goroutine holding the write lock, 0 if none
  onceDone,       \* globalInitOnce.done
  onceLocked,     \* globalInitOnce.m is locked
  pc,             \* position of every goroutine
  op,             \* the registry call a goroutine is executing
  arg,            \* the logger parameter of the running Set call
  local,          \* the logger built by the running initDefaultGlobalLogger
  restores,       \* oldLogger values captured by returned restore closures
  nextId,         \* number of default constructions so far
  calls,          \* number of registry calls started
  callLimit,      \* number of registry calls the run may start
  active,         \* the goroutines that take part in the run
  crashed,        \* the runtime aborted (unlock of an unlocked mutex)
  \* ---- history of the registry ----
  lastWrite,      \* the last store of a Set/Replace/Reset call
  dirty,          \* such a store happened since the goroutine's call began
  got,            \* the last return of GetGlobalLogger
  synced,         \* the Sync call made by the running Set/Reset
  ctorCount,      \* default constructions since the guard was last armed
  \* ---- logger instances (tracing.go, output.go, factory.go) ----
  heap,           \* the logger objects allocated so far
  last,           \* the last logging call and what it emitted
  seen,           \* per logger family: the counters of its zap sampler
  exited,         \* a Fatal call has ended the process
  sameTick,       \* all logging calls fall within one tick of the sampler
  \* ---- sanitizer (types.go) and output manager (output.go) ----
  customSensitiveFields,  \* var customSensitiveFields map[string]bool
  opsLog,         \* the latest Add/RemoveSensitiveField call of each name
  om,             \* OutputManager.cores of the manager under construction
  tee,            \* the core returned by CreateTeeCore
  delivery,       \* the sinks the last written record was handed to
  result,         \* the last call of a function and what it returned
  \* ---- Connect interceptor (middleware.go) ----
  interceptor,    \* ConnectLoggingInterceptor.config of the interceptor
  rpc,            \* the wrapped call in progress and what it returned
  events,         \* the logging calls the wrapper of that call has made
  \* ---- configuration of the registry (global.go) ----
  globalConfig,   \* globalConfig.config
  configMu,       \* globalConfig.mutex: goroutine holding it, 0 if none
  cfgArg,         \* the argument of every goroutine's running config call
  cfgRet,         \* the last return of a config call or of Cleanup
  \* ---- gateway (service/gateway/service.go) ----
  gw              \* the running GetUserWithOrders call and what it returned

regVars == <<globalLogger, lockW, onceDone, onceLocked, pc, op, arg, local,
             restores, nextId, calls, callLimit, active, crashed>>
histVars == <<lastWrite, dirty, got, synced, ctorCount>>
logVars == <<heap, last, seen, exited, sameTick>>
auxVars == <<customSensitiveFields, opsLog, om, tee, delivery, result>>
svcVars == <<interceptor, rpc, events, globalConfig, configMu, cfgArg, cfgRet,
             gw>>
vars == <<regVars, histVars, logVars, auxVars, svcVars>>

NoSync == [called |-> FALSE, on |-> Nil, err |-> FALSE]
NoGot == [valid |-> FALSE, val |-> Nil, settled |-> FALSE]
NoWrite == [op |-> "none", val |-> Nil, old |-> Nil, sync |-> NoSync,
            installed |-> Nil]

InitSlots ==
  /\ globalLogger = Nil
  /\ lockW = 0
  /\ onceDone = FALSE
  /\ onceLocked = FALSE
  /\ pc = [p \in Procs |-> "idle"]
  /\ op = [p \in Procs |-> "none"]
  /\ arg = [p \in Procs |-> Nil]
  /\ local = [p \in Procs |-> Nil]
  /\ restores = {}
  /\ nextId = 0
  /\ calls = 0
  /\ crashed = FALSE
  /\ lastWrite = NoWrite
  /\ dirty = [p \in Procs |-> FALSE]
  /\ got = NoGot
  /\ synced = [p \in Procs |-> NoSync]
  /\ ctorCount = 0

\* globalLoggerLock (sync.RWMutex).  Every read section of global.go holds
\* the lock for one load of the slot and is a single step of the model, so a
\* reader or a writer only ever waits for a goroutine inside a write section.
CanLock == lockW = 0
CanRLock == lockW = 0

\* Sync() of a logger: fallbackLogger.Sync always returns nil, a zap logger's
\* Sync may return an error
SyncErrors(l) == IF IsFallback(l) THEN {FALSE} ELSE {FALSE, TRUE}

\* a Set/Replace/Reset store: calls in progress are no longer undisturbed,
\* nor is the last result of GetGlobalLogger the current one
Disturbs ==
  /\ dirty' = [q \in Procs |-> pc[q] # "idle"]
  /\ got' = [got EXCEPT !.settled = FALSE]

\* a goroutine may enter a registry function
MayCall(p) == pc[p] = "idle" /\ p \in active /\ ~crashed /\ calls < callLimit

(***************************************************************************)
(* GetGlobalLogger, global.go:18-33, with sync.Once.Do and                 *)
(* initDefaultGlobalLogger, global.go:63-73, inlined step by step.         *)
(***************************************************************************)
\* global.go:23  if logger != nil { return logger }
GetFastPath(l) == l # Nil

\* a guard that lets every caller through
OnceMustRunAlways(done) == TRUE

\* sync.Once: f runs only while done is still 0 (checked before and after
\* taking the Once's mutex), global.go:28
OnceMustRun(done) == ~done

\* global.go:19-28  load the slot under the read lock; return the logger
\* read, or go on to globalInitOnce.Do when the slot was empty
GetRead(p) ==
  /\ MayCall(p)
  /\ CanRLock
  /\ calls' = calls + 1
  /\ IF GetFastPath(globalLogger)
       THEN /\ got' = [valid |-> TRUE, val |-> globalLogger, settled |-> TRUE]
            /\ UNCHANGED <<pc, op>>
       ELSE /\ pc' = [pc EXCEPT ![p] = "o_do"]
            /\ op' = [op EXCEPT ![p] = "get"]
            /\ UNCHANGED got
  /\ UNCHANGED <<globalLogger, lockW, onceDone, onceLocked, arg, local,
                 restores, nextId, callLimit, active, crashed>>
  /\ UNCHANGED <<lastWrite, dirty, synced, ctorCount>>
  /\ UNCHANGED <<logVars, auxVars, svcVars>>

\* sync.Once.Do: if o.done.Load() == 0 { o.doSlow(f) }
OnceDo(p) ==
  /\ pc[p] = "o_do" /\ ~crashed
  /\ pc' = [pc EXCEPT ![p] = IF OnceMustRun(onceDone) THEN "o_lock"
                                                      ELSE "g_read2"]
  /\ UNCHANGED <<globalLogger, lockW, onceDone, onceLocked, op, arg, local,
                 restores, nextId, calls, callLimit, active, crashed>>
  /\ UNCHANGED histVars
  /\ UNCHANGED <<logVars, auxVars, svcVars>>

\* sync.Once.doSlow: o.m.Lock()
OnceLock(p) ==
  /\ pc[p] = "o_lock" /\ ~crashed
  /\ ~onceLocked
  /\ onceLocked' = TRUE
  /\ pc' = [pc EXCEPT ![p] = "o_chk"]
  /\ UNCHANGED <<globalLogger, lockW, onceDone, op, arg, local, restores,
                 nextId, calls, callLimit, active, crashed>>
  /\ UNCHANGED histVars
  /\ UNCHANGED <<logVars, auxVars, svcVars>>

\* sync.Once.doSlow: if o.done.Load() == 0 { defer o.done.Store(1); f() },
\* otherwise the deferred o.m.Unlock() runs at once.  Unlocking a mutex that
\* ResetGlobalLogger has overwritten with a fresh one aborts the program
\* ("sync: unlock of unlocked mutex")
OnceCheck(p) ==
  /\ pc[p] = "o_chk" /\ ~crashed
  /\ IF OnceMustRun(onceDone)
       THEN /\ pc' = [pc EXCEPT ![p] = "i_new"]
            /\ UNCHANGED <<onceLocked, crashed>>
       ELSE /\ pc' = [pc EXCEPT ![p] = "g_read2"]
            /\ onceLocked' = FALSE
            /\ crashed' = ~onceLocked
  /\ UNCHANGED <<globalLogger, lockW, onceDone, op, arg, local, restores,
                 nextId, calls, callLimit, active>>
  /\ UNCHANGED histVars
  /\ UNCHANGED <<logVars, auxVars, svcVars>>

\* global.go:64-68  logger, err := NewLoggerFromEnv(); on error the logger is
\* a new &fallbackLogger{}
InitNew(p) ==
  /\ pc[p] = "i_new" /\ ~crashed
  /\ \E ok \in BOOLEAN :
       local' = [local EXCEPT ![p] = IF ok THEN DefaultId(nextId)
                                           ELSE FallbackId(nextId)]
  /\ nextId' = nextId + 1
  /\ ctorCount' = ctorCount + 1
  /\ pc' = [pc EXCEPT ![p] = "i_store"]
  /\ UNCHANGED <<globalLogger, lockW, onceDone, onceLocked, op, arg,
                 restores, calls, callLimit, active, crashed>>
  /\ UNCHANGED <<lastWrite, dirty, got, synced>>
  /\ UNCHANGED <<logVars, auxVars, svcVars>>

\* global.go:71  globalLogger = logger: the store is unconditional
InitStores(cur, built) == built

\* global.go:70-72  Lock(); globalLogger = logger; Unlock()
InitStore(p) ==
  /\ pc[p] = "i_store" /\ ~crashed
  /\ CanLock
  /\ globalLogger' = InitStores(globalLogger, local[p])
  /\ local' = [local EXCEPT ![p] = Nil]
  /\ pc' = [pc EXCEPT ![p] = "o_done"]
  /\ UNCHANGED <<lockW, onceDone, onceLocked, op, arg, restores, nextId,
                 calls, callLimit, active, crashed>>
  /\ UNCHANGED histVars
  /\ UNCHANGED <<logVars, auxVars, svcVars>>

\* sync.Once.doSlow, deferred: o.done.Store(1); o.m.Unlock()
OnceDone(p) ==
  /\ pc[p] = "o_done" /\ ~crashed
  /\ onceDone' = TRUE
  /\ onceLocked' = FALSE
  /\ crashed' = ~onceLocked
  /\ pc' = [pc EXCEPT ![p] = "g_read2"]
  /\ UNCHANGED <<globalLogger, lockW, op, arg, local, restores, nextId,
                 calls, callLimit, active>>
  /\ UNCHANGED histVars
  /\ UNCHANGED <<logVars, auxVars, svcVars>>

\* global.go:30-32  RLock(); defer RUnlock(); return globalLogger.  The
\* call made by UpdateGlobalLogLevel (global.go:158) returns into it.
GetRead2(p) ==
  /\ pc[p] = "g_read2" /\ ~crashed
  /\ CanRLock
  /\ got' = [valid |-> TRUE, val |-> globalLogger, settled |-> ~dirty[p]]
  /\ IF op[p] = "update"
       THEN /\ pc' = [pc EXCEPT ![p] = "u_level"]
            /\ arg' = [arg EXCEPT ![p] = globalLogger]
            /\ UNCHANGED op
       ELSE /\ pc' = [pc EXCEPT ![p] = "idle"]
            /\ op' = [op EXCEPT ![p] = "none"]
            /\ UNCHANGED arg
  /\ dirty' = [dirty EXCEPT ![p] = FALSE]
  /\ UNCHANGED <<globalLogger, lockW, onceDone, onceLocked, local,
                 restores, nextId, calls, callLimit, active, crashed>>
  /\ UNCHANGED <<lastWrite, synced, ctorCount>>
  /\ UNCHANGED <<logVars, auxVars, svcVars>>

GetStep(p) ==
  \/ GetRead(p) \/ OnceDo(p) \/ OnceLock(p) \/ OnceCheck(p) \/ InitNew(p)
  \/ InitStore(p) \/ OnceDone(p) \/ GetRead2(p)

(***************************************************************************)
(* SetGlobalLogger, global.go:36-46.  The restore closure returned by      *)
(* ReplaceGlobalLogger is SetGlobalLogger(oldLogger), global.go:57-59.     *)
(***************************************************************************)
\* global.go:41  if globalLogger != nil { _ = globalLogger.Sync() }
SetMustSync(prev) == prev # Nil

\* a replacement that is given up when the flush fails
SetInstallsUnlessSyncFails(a, prev, syncErr) == IF syncErr THEN prev ELSE a

\* global.go:42-45  the error of Sync is discarded, the argument is stored
SetInstalls(a, prev, syncErr) == a

\* the Sync call of a write section on the logger in the slot
Flushes(p, must) ==
  IF must
    THEN \E e \in SyncErrors(globalLogger) :
           synced' = [synced EXCEPT ![p] =
                        [called |-> TRUE, on |-> globalLogger, err |-> e]]
    ELSE synced' = [synced EXCEPT ![p] = NoSync]

\* global.go:37-43  Lock(); flush the logger that is being replaced
SetEnter(p, kind, l) ==
  /\ MayCall(p)
  /\ CanLock
  /\ lockW' = p
  /\ Flushes(p, SetMustSync(globalLogger))
  /\ pc' = [pc EXCEPT ![p] = "s_store"]
  /\ op' = [op EXCEPT ![p] = kind]
  /\ arg' = [arg EXCEPT ![p] = l]
  /\ calls' = calls + 1
  /\ UNCHANGED <<globalLogger, onceDone, onceLocked, local, restores,
                 nextId, callLimit, active, crashed>>
  /\ UNCHANGED <<lastWrite, dirty, got, ctorCount>>
  /\ UNCHANGED <<logVars, auxVars, svcVars>>

\* SetGlobalLogger(logger) called with a logger of the caller
SetBegin(p) == \E l \in Loggers : SetEnter(p, "set", l)

\* a restore closure is invoked: SetGlobalLogger(oldLogger)
RestoreBegin(p) == \E o \in restores : SetEnter(p, "restore", o)

\* global.go:45 and the deferred Unlock of global.go:38
SetStore(p) ==
  /\ pc[p] = "s_store" /\ ~crashed
  /\ globalLogger' = SetInstalls(arg[p], globalLogger, synced[p].err)
  /\ lockW' = 0
  /\ pc' = [pc EXCEPT ![p] = "idle"]
  /\ op' = [op EXCEPT ![p] = "none"]
  /\ arg' = [arg EXCEPT ![p] = Nil]
  /\ synced' = [synced EXCEPT ![p] = NoSync]
  /\ lastWrite' = [op |-> op[p], val |-> arg[p], old |-> globalLogger,
                   sync |-> synced[p], installed |-> globalLogger']
  /\ Disturbs
  /\ UNCHANGED <<onceDone, onceLocked, local, restores, nextId, calls,
                 callLimit, active, crashed>>
  /\ UNCHANGED ctorCount
  /\ UNCHANGED <<logVars, auxVars, svcVars>>

(***************************************************************************)
(* ReplaceGlobalLogger, global.go:49-60.                                   *)
(***************************************************************************)
\* global.go:53  oldLogger := globalLogger
ReplaceCaptures(cur) == cur

\* global.go:50-59  Lock(); swap; Unlock(); return the closure over
\* oldLogger.  Nothing but the two assignments runs under the lock.
ReplaceSwap(p) ==
  /\ MayCall(p)
  /\ CanLock
  /\ \E l \in Loggers :
       /\ globalLogger' = l
       /\ lastWrite' = [op |-> "replace", val |-> l, old |-> globalLogger,
                        sync |-> NoSync, installed |-> l]
  /\ restores' = restores \cup {ReplaceCaptures(globalLogger)}
  /\ calls' = calls + 1
  /\ Disturbs
  /\ UNCHANGED <<lockW, onceDone, onceLocked, pc, op, arg, local, nextId,
                 callLimit, active, crashed>>
  /\ UNCHANGED <<synced, ctorCount>>
  /\ UNCHANGED <<logVars, auxVars, svcVars>>

(***************************************************************************)
(* ResetGlobalLogger, global.go:255-265.                                   *)
(***************************************************************************)
\* global.go:256-261  Lock(); flush the logger that is being dropped
ResetEnter(p) ==
  /\ MayCall(p)
  /\ CanLock
  /\ lockW' = p
  /\ Flushes(p, globalLogger # Nil)
  /\ pc' = [pc EXCEPT ![p] = "x_store"]
  /\ op' = [op EXCEPT ![p] = "reset"]
  /\ calls' = calls + 1
  /\ UNCHANGED <<globalLogger, onceDone, onceLocked, arg, local, restores,
                 nextId, callLimit, active, crashed>>
  /\ UNCHANGED <<lastWrite, dirty, got, ctorCount>>
  /\ UNCHANGED <<logVars, auxVars, svcVars>>

\* global.go:263-264  globalLogger = nil; globalInitOnce = sync.Once{}
\* and the deferred Unlock of global.go:257
ResetStore(p) ==
  /\ pc[p] = "x_store" /\ ~crashed
  /\ globalLogger' = Nil
  /\ onceDone' = FALSE
  /\ onceLocked' = FALSE
  /\ lockW' = 0
  /\ pc' = [pc EXCEPT ![p] = "idle"]
  /\ op' = [op EXCEPT ![p] = "none"]
  /\ synced' = [synced EXCEPT ![p] = NoSync]
  /\ Disturbs
  /\ lastWrite' = [op |-> "reset", val |-> Nil, old |-> globalLogger,
                   sync |-> synced[p], installed |-> Nil]
  /\ ctorCount' = 0
  /\ UNCHANGED <<arg, local, restores, nextId, calls, callLimit, active,
                 crashed>>
  /\ UNCHANGED <<logVars, auxVars, svcVars>>

SetStep(p) == SetBegin(p) \/ RestoreBegin(p) \/ SetStore(p)
ResetStep(p) == ResetEnter(p) \/ ResetStore(p)

(***************************************************************************)
(* Part 2: values of the logger instances.                                 *)
(***************************************************************************)
\* type Level (types.go)
DebugLevel == -1
InfoLevel == 0
WarnLevel == 1
ErrorLevel == 2
FatalLevel == 3
Levels == {DebugLevel, InfoLevel, WarnLevel, ErrorLevel, FatalLevel}

\* zapcore.Level as used by levelToZapLevel
ZapDebug == -1
ZapInfo == 0
ZapWarn == 1
ZapError == 2
ZapFatal == 5

\* zap.String(k, v)
Field(k, v) == [k |-> k, v |-> v]

\* DefaultLoggerConfig() (factory.go)
DefaultLoggerConfig ==
  [Level |-> InfoLevel, Format |-> "console",
   ServiceName |-> "unknown-service", Version |-> "1.0.0",
   Environment |-> "development",
   Console |-> TRUE,
   File |-> FALSE, Path |-> "",
   Remote |-> FALSE, Endpoint |-> "",
   Tracing |-> FALSE]

\* the span carried by a context (trace.SpanFromContext)
NoSpan == [valid |-> FALSE, sampled |-> FALSE]
\* context.Background(): no values, no span
Background == [vals |-> ("request_id" :> ""), span |-> NoSpan]

\* no logging call has been made since the last other operation
NoCall ==
  [kind |-> "none", by |-> 0, lvl |-> InfoLevel, ctx |-> Background,
   explicit |-> <<>>, handed |-> <<>>, emitted |-> FALSE, rec |-> <<>>]

\* no function has been called
NoResult == [fn |-> "none", arg |-> <<>>, out |-> <<>>]

\* CreateTeeCore has not been called
NoTee == [kind |-> "none", cores |-> <<>>]

\* the sanitizer and the output manager as the program starts
NoInterceptor == [made |-> FALSE]
NoCfgArg == [fn |-> "none"]
NoCfgRet == [fn |-> "none"]
NoGateway == [pc |-> "idle"]
NoRpc == [kind |-> "none", pc |-> "idle"]

SvcIdle ==
  /\ interceptor = NoInterceptor
  /\ rpc = NoRpc
  /\ events = <<>>
  /\ globalConfig = DefaultLoggerConfig
  /\ configMu = 0
  /\ cfgArg = [p \in Procs |-> NoCfgArg]
  /\ cfgRet = NoCfgRet
  /\ gw = NoGateway

AuxIdle ==
  /\ SvcIdle
  /\ customSensitiveFields = {}
  /\ opsLog = <<>>
  /\ om = <<>>
  /\ tee = NoTee
  /\ delivery = <<>>
  /\ result = NoResult

(***************************************************************************)
(* Specifications of the registry.                                         *)
(***************************************************************************)
InitLoggersIdle ==
  /\ heap = <<>>
  /\ last = NoCall
  /\ seen = <<>>
  /\ exited = FALSE
  /\ sameTick = FALSE
  /\ AuxIdle

\* any goroutine may call any registry function at any time
Init ==
  /\ InitSlots /\ callLimit = MaxCalls /\ active = 1..NumBusy
  /\ InitLoggersIdle

Next ==
  \E p \in Procs : GetStep(p) \/ SetStep(p) \/ ReplaceSwap(p) \/ ResetStep(p)

Spec == Init /\ [][Next]_vars

\* only GetGlobalLogger runs concurrently; ResetGlobalLogger is called while
\* no other call is in progress
InitLazy ==
  /\ InitSlots /\ callLimit = MaxLazyCalls /\ active = Procs
  /\ InitLoggersIdle

QuietReset(p) ==
  \/ (\A q \in Procs : pc[q] = "idle") /\ ResetEnter(p)
  \/ ResetStore(p)

NextLazy == \E p \in Procs : GetStep(p) \/ QuietReset(p)

SpecLazy == InitLazy /\ [][NextLazy]_vars

(***************************************************************************)
(* Properties of the registry.                                             *)
(***************************************************************************)
\* a GetGlobalLogger has returned and no Set/Replace/Reset has stored since
\* that call began
SettledGet == got.valid /\ got.settled

\* C1: from an empty slot with the guard armed, concurrent GetGlobalLogger
\* calls build the default at most once, and every call that returns
\* returns the one logger that was built and sits in the slot.
C1_LazyInitOnce ==
  /\ ctorCount <= 1
  /\ SettledGet => /\ ctorCount = 1
                   /\ got.val = globalLogger
                   /\ globalLogger >= DefaultBase

\* C1 witness: after a ResetGlobalLogger, one goroutine has returned the
\* rebuilt default while another, which also found the slot empty, is on its
\* way to the second read, and the default was rebuilt once.
C1_Witness ==
  /\ lastWrite.op = "reset"
  /\ ctorCount = 1
  /\ nextId >= 2
  /\ SettledGet /\ got.val = globalLogger
  /\ \E q \in Procs : pc[q] = "g_read2" /\ ~dirty[q]

\* C2: once SetGlobalLogger(L) has stored L, the slot holds L until the next
\* Set/Replace/Reset; a lazily built default never overwrites it.
C2_ExplicitLoggerKept ==
  lastWrite.op = "set" => globalLogger = lastWrite.val

\* C3: a GetGlobalLogger that begins after ReplaceGlobalLogger(N) swapped out
\* a logger O returns N, and one that begins after the restore closure has
\* run returns O, as long as no other Set/Replace/Reset came in between.
C3_ReplaceThenRestore ==
  SettledGet =>
    /\ lastWrite.op = "replace" /\ lastWrite.old # Nil
         => got.val = lastWrite.val
    /\ lastWrite.op = "restore" /\ lastWrite.val # Nil
         => got.val = lastWrite.val

\* C4: SetGlobalLogger flushes the logger it replaces before the new one is
\* stored, and stores its argument whether or not that Sync failed.
C4_SetSyncsThenInstalls ==
  /\ \A p \in Procs :
       pc[p] = "s_store" /\ globalLogger # Nil
         => synced[p].called /\ synced[p].on = globalLogger
  /\ lastWrite.op \in {"set", "restore"} =>
       /\ lastWrite.installed = lastWrite.val
       /\ lastWrite.old # Nil
            => lastWrite.sync.called /\ lastWrite.sync.on = lastWrite.old
       /\ lastWrite.old = Nil => ~lastWrite.sync.called

\* C4 witness: a SetGlobalLogger(L) whose Sync of the previous logger failed
\* has returned and L is the global logger.
C4_Witness ==
  /\ lastWrite.op = "set"
  /\ lastWrite.val \in Loggers
  /\ lastWrite.old # Nil /\ lastWrite.old # lastWrite.val
  /\ lastWrite.sync.called /\ lastWrite.sync.err
  /\ globalLogger = lastWrite.val

(***************************************************************************)
(* Part 2: construction of logger instances (factory.go, tracing.go,       *)
(* output.go).                                                             *)
(***************************************************************************)
\* LoggerConfig values handed to the constructors
LoggerConfig(lv, fmt, con, file, rem, tr) ==
  [Level |-> lv, Format |-> fmt,
   ServiceName |-> "svc", Version |-> "", Environment |-> "",
   Console |-> con,
   File |-> file, Path |-> IF file THEN "logs/app.log" ELSE "",
   Remote |-> rem, Endpoint |-> IF rem THEN "collector:4317" ELSE "",
   Tracing |-> tr]

CfgLevels == {DebugLevel, InfoLevel, WarnLevel}
CfgFormats == {"json", "console", ""}
Configs ==
  {LoggerConfig(lv, fmt, con, file, rem, tr) :
     lv \in CfgLevels, fmt \in CfgFormats, con \in BOOLEAN,
     file \in BOOLEAN, rem \in BOOLEAN, tr \in BOOLEAN}

\* the entry points that build a logger
Constructors == {"factory", "new", "outputs", "traced"}

\* a merge that lets only a level above Info override the default
mergePositiveLevel(config) ==
  LET d == DefaultLoggerConfig IN
  [Level |-> IF config.Level > 0 THEN config.Level ELSE d.Level,
   Format |-> IF config.Format # "" THEN config.Format ELSE d.Format,
   ServiceName |-> IF config.ServiceName # "" THEN config.ServiceName
                   ELSE d.ServiceName,
   Version |-> IF config.Version # "" THEN config.Version ELSE d.Version,
   Environment |-> IF config.Environment # "" THEN config.Environment
                   ELSE d.Environment,
   Console |-> IF config.Console THEN config.Console ELSE d.Console,
   File |-> IF config.File THEN config.File ELSE d.File,
   Path |-> IF config.File THEN config.Path ELSE d.Path,
   Remote |-> IF config.Remote THEN config.Remote ELSE d.Remote,
   Endpoint |-> IF config.Remote THEN config.Endpoint ELSE d.Endpoint,
   Tracing |-> IF config.Tracing THEN config.Tracing ELSE d.Tracing]

\* LoggerFactory.mergeWithDefaults: non-zero values override the defaults
mergeWithDefaults(config) ==
  LET d == DefaultLoggerConfig IN
  [Level |-> IF config.Level # 0 THEN config.Level ELSE d.Level,
   Format |-> IF config.Format # "" THEN config.Format ELSE d.Format,
   ServiceName |-> IF config.ServiceName # "" THEN config.ServiceName
                   ELSE d.ServiceName,
   Version |-> IF config.Version # "" THEN config.Version ELSE d.Version,
   Environment |-> IF config.Environment # "" THEN config.Environment
                   ELSE d.Environment,
   Console |-> IF config.Console THEN config.Console ELSE d.Console,
   File |-> IF config.File THEN config.File ELSE d.File,
   Path |-> IF config.File THEN config.Path ELSE d.Path,
   Remote |-> IF config.Remote THEN config.Remote ELSE d.Remote,
   Endpoint |-> IF config.Remote THEN config.Endpoint ELSE d.Endpoint,
   Tracing |-> IF config.Tracing THEN config.Tracing ELSE d.Tracing]

levelToZapLevel(level) ==
  CASE level = DebugLevel -> ZapDebug
    [] level = InfoLevel -> ZapInfo
    [] level = WarnLevel -> ZapWarn
    [] level = ErrorLevel -> ZapError
    [] level = FatalLevel -> ZapFatal
    [] OTHER -> ZapInfo

hasMultipleOutputs(config) ==
  LET console == IF config.Console \/ config.Format = "console"
                    \/ config.Format = "" THEN 1 ELSE 0
      file == IF config.File /\ config.Path # "" THEN 1 ELSE 0
      remote == IF config.Remote /\ config.Endpoint # "" THEN 1 ELSE 0
  IN console + file + remote > 1

shouldAddConsoleOutput(config) ==
  \/ config.Format = "console" \/ config.Format = ""
  \/ config.Console

shouldAddFileOutput(config) == config.File /\ config.Path # ""

shouldAddRemoteOutput(config) == config.Remote /\ config.Endpoint # ""

\* the cores the OutputManager holds when CreateTeeCore is called;
\* AddRemoteOutput always returns an error and adds none
NumCores(config) ==
  (IF shouldAddConsoleOutput(config) THEN 1 ELSE 0)
  + (IF shouldAddFileOutput(config) THEN 1 ELSE 0)

\* OutputManager.CreateTeeCore: the level of the resulting core
CreateTeeCore(config) ==
  IF NumCores(config) = 0 THEN ZapInfo ELSE levelToZapLevel(config.Level)

\* the service identity fields every record of the logger carries
BaseFields(config) ==
  (IF config.ServiceName # ""
     THEN <<Field("service", config.ServiceName)>> ELSE <<>>)
  \o (IF config.Version # ""
        THEN <<Field("version", config.Version)>> ELSE <<>>)
  \o (IF config.Environment # ""
        THEN <<Field("environment", config.Environment)>> ELSE <<>>)

\* SetLevel has not been called on the object
Unset == 99

\* a logger object; a tracedLogger is kept together with the logger it
\* wraps.  level is the field of the wrapper struct, zapLevel the level of
\* the zap core, zapFields the fields bound to the zap logger.  The fields
\* after born record how the object came to be; given holds the context
\* WithContext last returned the object for, and the receiver of that call.
Object(kind, config) ==
  [kind |-> kind, traced |-> FALSE, extractor |-> FALSE,
   level |-> config.Level,
   zapLevel |-> IF kind = "core" THEN levelToZapLevel(config.Level)
                ELSE CreateTeeCore(config),
   sampled |-> kind = "core" /\ config.Format = "json",
   zapFields |-> BaseFields(config),
   born |-> BaseFields(config),
   parent |-> 0, extra |-> <<>>, setTo |-> Unset,
   factory |-> FALSE, built |-> config.Level, given |-> <<>>]

\* NewLogger: zap.Config.Build on the production or development preset
NewLogger(config) == Object("core", config)

\* CreateLoggerWithOutputs: zap.New on the tee of the configured cores
CreateLoggerWithOutputs(config) == Object("multi", config)

CreateTracedLogger(config) ==
  LET inner == IF hasMultipleOutputs(config)
                 THEN CreateLoggerWithOutputs(config)
                 ELSE NewLogger(config)
  IN [inner EXCEPT !.traced = TRUE, !.extractor = config.Tracing]

\* a factory that looks at the outputs before it looks at tracing
CreateLoggerOutputsFirst(config) ==
  LET mergedConfig == mergeWithDefaults(config)
      made == IF hasMultipleOutputs(mergedConfig)
                THEN CreateLoggerWithOutputs(mergedConfig)
                ELSE IF mergedConfig.Tracing
                       THEN CreateTracedLogger(mergedConfig)
                       ELSE NewLogger(mergedConfig)
  IN [made EXCEPT !.factory = TRUE, !.built = config.Level]

\* LoggerFactory.CreateLogger
CreateLogger(config) ==
  LET mergedConfig == mergeWithDefaults(config)
      made == IF mergedConfig.Tracing
                THEN CreateTracedLogger(mergedConfig)
                ELSE IF hasMultipleOutputs(mergedConfig)
                       THEN CreateLoggerWithOutputs(mergedConfig)
                       ELSE NewLogger(mergedConfig)
  IN [made EXCEPT !.factory = TRUE, !.built = config.Level]

Construct(via, config) ==
  CASE via = "factory" -> CreateLogger(config)
    [] via = "new" -> NewLogger(config)
    [] via = "outputs" -> CreateLoggerWithOutputs(config)
    [] via = "traced" -> CreateTracedLogger(config)

(***************************************************************************)
(* Part 2: fields taken from a context.                                    *)
(***************************************************************************)
\* ctx.Value(key) as a string; "" when absent or not a string
Value(ctx, key) == IF key \in DOMAIN ctx.vals THEN ctx.vals[key] ELSE ""

RECURSIVE getContextValue(_, _)
getContextValue(ctx, keys) ==
  IF keys = <<>> THEN ""
  ELSE IF Value(ctx, Head(keys)) # "" THEN Value(ctx, Head(keys))
  ELSE getContextValue(ctx, Tail(keys))

\* the concepts of extractBusinessContextFields with their key spellings
BusinessKeys ==
  << [field |-> "request_id",
      keys |-> <<"request_id", "requestID", "x-request-id">>],
     [field |-> "user_id", keys |-> <<"user_id", "userID", "user">>],
     [field |-> "session_id",
      keys |-> <<"session_id", "sessionID", "session">>],
     [field |-> "tenant_id", keys |-> <<"tenant_id", "tenantID", "tenant">>],
     [field |-> "client_ip",
      keys |-> <<"client_ip", "clientIP", "ip", "remote_addr">>],
     [field |-> "user_agent",
      keys |-> <<"user_agent", "userAgent", "User-Agent">>] >>

RECURSIVE BusinessFrom(_, _)
BusinessFrom(ctx, concepts) ==
  IF concepts = <<>> THEN <<>>
  ELSE LET c == Head(concepts)
           v == getContextValue(ctx, c.keys)
       IN (IF v # "" THEN <<Field(c.field, v)>> ELSE <<>>)
          \o BusinessFrom(ctx, Tail(concepts))

extractBusinessContextFields(ctx) == BusinessFrom(ctx, BusinessKeys)

\* TracingExtractor.ExtractTraceFields
ExtractTraceFields(enabled, ctx) ==
  IF ~enabled THEN <<>>
  ELSE IF ctx.span.valid
    THEN <<Field("trace_id", "trace-1"), Field("span_id", "span-1")>>
         \o (IF ctx.span.sampled
               THEN <<Field("trace_sampled", "true")>> ELSE <<>>)
    ELSE <<>>

\* an extractor that appends the trace fields after the business fields
ExtractBusinessFirst(enabled, ctx) ==
  extractBusinessContextFields(ctx) \o ExtractTraceFields(enabled, ctx)

\* TracingExtractor.ExtractAllContextFields
ExtractAllContextFields(enabled, ctx) ==
  ExtractTraceFields(enabled, ctx) \o extractBusinessContextFields(ctx)

\* extractContextFields of the core logger: request_id and user_id only
extractContextFields(ctx) ==
  (IF Value(ctx, "request_id") # ""
     THEN <<Field("request_id", Value(ctx, "request_id"))>> ELSE <<>>)
  \o (IF Value(ctx, "user_id") # ""
        THEN <<Field("user_id", Value(ctx, "user_id"))>> ELSE <<>>)

\* the contexts handed to the loggers
CtxReq == [vals |-> ("request_id" :> "req-123"), span |-> NoSpan]
CtxFull ==
  [vals |-> ("requestID" :> "req-9" @@ "user_id" :> "u1"
             @@ "session" :> "s1"),
   span |-> [valid |-> TRUE, sampled |-> TRUE]]
Contexts == {Background, CtxReq, CtxFull}

\* the explicit fields handed to logging calls
FieldLists ==
  { <<>>, <<Field("order", "o-1"), Field("request_id", "explicit")>> }

\* the extra fields handed to WithFields
ExtraLists == { <<Field("fa", "1")>>, <<Field("fb", "2")>> }

(***************************************************************************)
(* Part 2: emission of a record by the zap logger of an object.            *)
(***************************************************************************)
\* zap.NewProductionConfig samples: per level and message the first
\* SampleInitial entries of a tick are written, then every
\* SampleThereafter-th
SampleInitial == 100
SampleThereafter == 100

\* calls at one level that the model follows within one sampler tick
MaxBurst == 101

\* loggers alive at a time
MaxHeap == 3
Objects == 1..MaxHeap

ZeroCounts == [l \in Levels |-> 0]

\* the zap level of the entry written by Debug/Info/Warn/Error/Fatal
MethodLevel(lvl) ==
  CASE lvl = DebugLevel -> ZapDebug
    [] lvl = InfoLevel -> ZapInfo
    [] lvl = WarnLevel -> ZapWarn
    [] lvl = ErrorLevel -> ZapError
    [] lvl = FatalLevel -> ZapFatal

\* the core of the object accepts entries of that level
Enabled(lg, lvl) == MethodLevel(lvl) >= lg.zapLevel

\* the sampler drops the n-th entry of a tick
SamplerDrops(n) ==
  n > SampleInitial /\ (n - SampleInitial) % SampleThereafter # 0

StackField == Field("stack_trace", "stack")

\* Error and Fatal of the core logger append the stack trace
EmittedFields(lg, lvl, fields) ==
  IF lg.kind = "core" /\ lvl \in {ErrorLevel, FatalLevel}
    THEN fields \o <<StackField>>
    ELSE fields

\* the family (zap logger and its clones) of the first object
Root(i) == 1

\* the non-context method lvl of object i is entered with fields handed
Call(i, kind, lvl, ctx, explicit, handed) ==
  LET lg == heap[i]
      r == Root(i)
      on == Enabled(lg, lvl)
      counted == on /\ lg.sampled
      n == IF sameTick THEN seen[r][lvl] + 1 ELSE 1
      out == on /\ ~(lg.sampled /\ SamplerDrops(n))
  IN /\ i \in DOMAIN heap
     /\ counted /\ sameTick => seen[r][lvl] < MaxBurst
     /\ last' = [kind |-> kind, by |-> i, lvl |-> lvl, ctx |-> ctx,
                 explicit |-> explicit, handed |-> handed,
                 emitted |-> out,
                 rec |-> IF out
                           THEN lg.zapFields
                                \o EmittedFields(lg, lvl, handed)
                           ELSE <<>>]
     /\ seen' = IF counted
                  THEN [seen EXCEPT ![r] =
                          IF sameTick THEN [@ EXCEPT ![lvl] = n]
                          ELSE [ZeroCounts EXCEPT ![lvl] = 1]]
                  ELSE seen
     /\ exited' = (lvl = FatalLevel)
     /\ UNCHANGED <<heap, sameTick>>
     /\ UNCHANGED <<regVars, histVars, auxVars, svcVars>>

\* Debug, Info, Warn, Error, Fatal
Log(i, lvl, fields) ==
  /\ ~exited
  /\ i \in DOMAIN heap
  /\ Call(i, "log", lvl, Background, fields, fields)

\* the merge with the explicit fields first
MergeExplicitFirst(contextFields, fields) == fields \o contextFields

\* append(contextFields, fields...)
MergeFields(contextFields, fields) == contextFields \o fields

\* tracedLogger.mergeWithContextFields
mergeWithContextFields(lg, ctx, fields) ==
  LET contextFields == ExtractAllContextFields(lg.extractor, ctx)
  IN IF Len(contextFields) = 0 THEN fields
     ELSE MergeFields(contextFields, fields)

\* the fields a *Context method hands to the non-context method
ContextHanded(lg, ctx, fields) ==
  IF lg.traced THEN mergeWithContextFields(lg, ctx, fields)
  ELSE IF lg.kind = "core"
    THEN MergeFields(extractContextFields(ctx), fields)
    ELSE fields

\* DebugContext, InfoContext, WarnContext, ErrorContext
LogContext(i, lvl, ctx, fields) ==
  /\ ~exited
  /\ i \in DOMAIN heap
  /\ lvl \in Levels \ {FatalLevel}
  /\ Call(i, "ctx", lvl, ctx, fields, ContextHanded(heap[i], ctx, fields))

\* IfDebug / IfInfo hand out an active conditional logger
CondActive(lg, which) == lg.level <= which

\* IfDebug().Log and IfInfo().Log
CondLog(i, which, fields) ==
  /\ ~exited
  /\ i \in DOMAIN heap
  /\ which \in {DebugLevel, InfoLevel}
  /\ LET kind == IF which = DebugLevel THEN "ifdebug" ELSE "ifinfo" IN
     IF CondActive(heap[i], which)
       THEN Call(i, kind, which, Background, fields, fields)
       ELSE /\ last' = [NoCall EXCEPT !.kind = kind, !.by = i,
                                      !.lvl = which, !.explicit = fields]
            /\ UNCHANGED <<heap, seen, exited, sameTick>>
            /\ UNCHANGED <<regVars, histVars, auxVars, svcVars>>

(***************************************************************************)
(* Part 2: derivation and level changes.                                   *)
(***************************************************************************)
\* a receiver that binds the new fields to its own zap logger
WithFieldsGrowsReceiver(zapFields, fields) == zapFields \o fields

\* the fields of the receiver after WithFields / WithService / WithContext
WithFieldsReceiver(zapFields, fields) == zapFields

\* a new object whose zap logger is l.zap.With(fields...)
DeriveGiven(i, fields, given) ==
  LET lg == heap[i]
      child == [lg EXCEPT !.zapFields = lg.zapFields \o fields,
                          !.born = lg.zapFields \o fields,
                          !.parent = i, !.extra = fields,
                          !.setTo = Unset, !.given = given]
  IN /\ ~exited
     /\ i \in DOMAIN heap
     /\ Len(heap) < MaxHeap
     /\ heap' = Append([heap EXCEPT ![i].zapFields =
                          WithFieldsReceiver(@, fields)], child)
     /\ seen' = Append(seen, ZeroCounts)
     /\ last' = NoCall
     /\ UNCHANGED <<exited, sameTick>>
     /\ UNCHANGED <<regVars, histVars, auxVars, svcVars>>

Derive(i, fields) == DeriveGiven(i, fields, heap[i].given)

WithFields(i, fields) == Derive(i, fields)

WithService(i, service) == Derive(i, <<Field("service", service)>>)

\* the untraced multi-output logger returns itself
WithContext(i, ctx) ==
  LET lg == heap[i] IN
  /\ i \in DOMAIN heap
  /\ IF lg.traced
       THEN DeriveGiven(i, ExtractAllContextFields(lg.extractor, ctx),
                        <<ctx, i>>)
     ELSE IF lg.kind = "core"
       THEN DeriveGiven(i, extractContextFields(ctx), <<ctx, i>>)
     ELSE
       /\ ~exited
       /\ heap' = [heap EXCEPT ![i].given = <<ctx, i>>]
       /\ last' = NoCall
       /\ UNCHANGED <<seen, exited, sameTick>>
       /\ UNCHANGED <<regVars, histVars, auxVars, svcVars>>

\* zap.IncreaseLevel only ever raises the level of a core
IncreaseLevel(zapLevel, to) == IF to > zapLevel THEN to ELSE zapLevel

SetLevel(i, level) ==
  LET lg == heap[i] IN
  /\ ~exited
  /\ i \in DOMAIN heap
  /\ heap' = [heap EXCEPT ![i] =
               [lg EXCEPT !.level = level,
                          !.zapLevel = IF lg.kind = "core"
                                         THEN IncreaseLevel(
                                                lg.zapLevel,
                                                levelToZapLevel(level))
                                         ELSE lg.zapLevel,
                          !.setTo = level]]
  /\ last' = NoCall
  /\ UNCHANGED <<seen, exited, sameTick>>
  /\ UNCHANGED <<regVars, histVars, auxVars, svcVars>>

(***************************************************************************)
(* Specifications of the logger instances.                                 *)
(***************************************************************************)
RegistryIdle == InitSlots /\ callLimit = 0 /\ active = {} /\ AuxIdle

\* one constructed logger
OneLogger(lg) ==
  /\ heap = <<lg>>
  /\ seen = <<ZeroCounts>>
  /\ last = NoCall
  /\ exited = FALSE

\* a logger built by any constructor from any configuration; calls are
\* spaced by more than a sampler tick
InitLogger ==
  /\ RegistryIdle
  /\ \E via \in Constructors, config \in Configs :
       OneLogger(Construct(via, config))
  /\ sameTick = FALSE

NextLogger ==
  \E i \in Objects :
    \/ \E level \in Levels : SetLevel(i, level)
    \/ \E lvl \in Levels, fields \in FieldLists : Log(i, lvl, fields)
    \/ \E lvl \in Levels \ {FatalLevel}, ctx \in Contexts,
          fields \in FieldLists :
         LogContext(i, lvl, ctx, fields)
    \/ \E which \in {DebugLevel, InfoLevel} : CondLog(i, which, <<>>)

SpecLogger == InitLogger /\ [][NextLogger]_vars

\* a logger built at Debug for the console and the loggers derived from it
InitDerive ==
  /\ RegistryIdle
  /\ \E via \in Constructors, config \in Configs :
       /\ config.Level = DebugLevel
       /\ config.Format = "console"
       /\ OneLogger(Construct(via, config))
  /\ sameTick = FALSE

\* the context handed to WithContext: one with a value to extract
DeriveContexts == {CtxReq}

NextDerive ==
  \E i \in Objects :
    \/ \E fields \in ExtraLists : WithFields(i, fields)
    \/ WithService(i, "billing")
    \/ \E ctx \in DeriveContexts : WithContext(i, ctx)
    \/ \E fields \in FieldLists : Log(i, InfoLevel, fields)

SpecDerive == InitDerive /\ [][NextDerive]_vars

\* a logger built by the factory at Warn, called repeatedly with one message
\* within one tick of the sampler
InitBurst ==
  /\ RegistryIdle
  /\ \E config \in Configs :
       /\ config.Level = WarnLevel
       /\ OneLogger(Construct("factory", config))
  /\ sameTick = TRUE

BurstLog(i) == \E lvl \in Levels : Log(i, lvl, <<>>)

NextBurst == \E i \in Objects : BurstLog(i)

SpecBurst == InitBurst /\ [][NextBurst]_vars

(***************************************************************************)
(* Properties of the logger instances.                                     *)
(***************************************************************************)
\* the record contains the field
Carries(rec, f) == \E k \in DOMAIN rec : rec[k] = f

\* the record contains every field of the list
CarriesAll(rec, fields) == \A k \in DOMAIN fields : Carries(rec, fields[k])

\* the record contains no field of the list
CarriesNone(rec, fields) == \A k \in DOMAIN fields : ~Carries(rec, fields[k])

\* the object is as its constructor made it
AsBuilt(lg) == lg.parent = 0 /\ lg.setTo = Unset

\* C5: a logger built by CreateLogger with tracing disabled (at a level that
\* lets Info through), called with InfoContext and a context whose
\* "request_id" is "req-123", emits a record with request_id = "req-123".
C5_RequestIdEmitted ==
  last.kind = "ctx" /\ last.lvl = InfoLevel
  /\ Value(last.ctx, "request_id") = "req-123"
  /\ heap[last.by].factory /\ ~heap[last.by].traced
  /\ AsBuilt(heap[last.by])
  /\ heap[last.by].built \in {DebugLevel, InfoLevel}
  => /\ last.emitted
     /\ Carries(last.rec, Field("request_id", "req-123"))

\* C6: after SetLevel(L) on a logger, a Debug/Info/Warn/Error call on it
\* emits a record exactly when the level of the call is at least L.
C6_SetLevelThreshold ==
  last.kind = "log" /\ last.lvl # FatalLevel
  /\ heap[last.by].setTo # Unset
  => (last.emitted <=> last.lvl >= heap[last.by].setTo)

\* C7: IfDebug().Log emits exactly when the logger emits Debug calls, and
\* IfInfo().Log exactly when the logger emits Info calls.
C7_ConditionalAgrees ==
  /\ last.kind = "ifdebug"
       => (last.emitted <=> Enabled(heap[last.by], DebugLevel))
  /\ last.kind = "ifinfo"
       => (last.emitted <=> Enabled(heap[last.by], InfoLevel))

\* C8: a logger the factory built from a configuration with Level = Warn
\* emits nothing for Debug and Info calls and one record for every Warn,
\* Error and Fatal call.
C8_WarnThreshold ==
  last.kind = "log"
  /\ heap[last.by].factory /\ heap[last.by].built = WarnLevel
  /\ AsBuilt(heap[last.by])
  => /\ last.lvl \in {DebugLevel, InfoLevel} => ~last.emitted
     /\ last.lvl \in {WarnLevel, ErrorLevel, FatalLevel} => last.emitted

\* A and B were derived from the same parent by WithFields with different
\* extra fields that the parent does not carry itself
Siblings(a, b) ==
  /\ a # b
  /\ heap[a].parent # 0 /\ heap[a].parent = heap[b].parent
  /\ heap[a].extra \in ExtraLists /\ heap[b].extra \in ExtraLists
  /\ heap[a].extra # heap[b].extra
  /\ CarriesNone(heap[heap[a].parent].born, heap[a].extra \o heap[b].extra)

\* C9: WithFields leaves its receiver as it was: the fields bound to a
\* logger never change once it is made, and for A = P.WithFields(fa) and
\* B = P.WithFields(fb) the records of P carry neither fa nor fb and the
\* records of A carry fa and not fb.
C9_WithFieldsKeepsReceiver ==
  /\ \A i \in DOMAIN heap : heap[i].zapFields = heap[i].born
  /\ \A a, b \in DOMAIN heap :
       Siblings(a, b) /\ last.kind = "log" /\ last.emitted
       /\ CarriesNone(last.explicit, heap[a].extra \o heap[b].extra)
       => /\ last.by = heap[a].parent
               => CarriesNone(last.rec, heap[a].extra \o heap[b].extra)
          /\ last.by = a
               => /\ CarriesAll(last.rec, heap[a].extra)
                  /\ CarriesNone(last.rec, heap[b].extra)

\* C9 witness: the parent emits a record after both children were derived
\* from it, or rather the first child does after the second was derived.
C9_Witness ==
  /\ Len(heap) = 3
  /\ Siblings(2, 3)
  /\ heap[2].parent = 1
  /\ last.kind = "log" /\ last.emitted /\ last.by = 2
  /\ CarriesAll(last.rec, heap[2].extra)
  /\ CarriesNone(last.rec, heap[3].extra)

\* the fields the logger takes from a context
ContextFieldsOf(lg, ctx) ==
  IF lg.traced THEN ExtractAllContextFields(lg.extractor, ctx)
  ELSE extractContextFields(ctx)

\* C10: a *Context call on the core logger or on the traced wrapper hands
\* to the non-context method the context fields followed by the explicit
\* fields, in order and with nothing removed.
C10_ContextFieldsFirst ==
  last.kind = "ctx"
  /\ (heap[last.by].traced \/ heap[last.by].kind = "core")
  => last.handed = ContextFieldsOf(heap[last.by], last.ctx) \o last.explicit

\* C10 witness: a traced logger is called with a context carrying request_id
\* and explicit fields carrying request_id as well; both occurrences are
\* handed on, the one of the context first.
C10_Witness ==
  /\ last.kind = "ctx" /\ last.emitted
  /\ heap[last.by].traced /\ heap[last.by].extractor
  /\ last.ctx = CtxReq
  /\ last.handed = << Field("request_id", "req-123"), Field("order", "o-1"),
                      Field("request_id", "explicit") >>

(***************************************************************************)
(* Part 3: the functions of the package, called on their own.  result      *)
(* holds the last call and what it returned.                               *)
(***************************************************************************)
\* the values a context may hold under the keys the extractor reads
SpanStates ==
  { NoSpan, [valid |-> TRUE, sampled |-> FALSE],
    [valid |-> TRUE, sampled |-> TRUE] }

ExtractContexts ==
  { [vals |-> ("request_id" :> a @@ "requestID" :> b @@ "x-request-id" :> c
               @@ "user" :> u @@ "session_id" :> s @@ "ip" :> p),
     span |-> sp] :
      a \in {"", "r1"}, b \in {"", "r2"}, c \in {"", "r3"},
      u \in {"", "u1"}, s \in {"", "s1"}, p \in {"", "10.0.0.1"},
      sp \in SpanStates }

\* a call of TracingExtractor.ExtractAllContextFields
ExtractAll ==
  /\ \E enabled \in BOOLEAN, ctx \in ExtractContexts :
       result' = [fn |-> "ExtractAllContextFields",
                  arg |-> [enabled |-> enabled, ctx |-> ctx],
                  out |-> ExtractAllContextFields(enabled, ctx)]
  /\ UNCHANGED <<regVars, histVars, logVars, svcVars>>
  /\ UNCHANGED <<customSensitiveFields, opsLog, om, tee, delivery>>

InitExtract == RegistryIdle /\ InitLoggersIdle
NextExtract == ExtractAll
SpecExtract == InitExtract /\ [][NextExtract]_vars

\* the order the specification fixes for the extracted fields
ExtractOrder ==
  << "trace_id", "span_id", "trace_sampled", "request_id", "user_id",
     "session_id", "tenant_id", "client_ip", "user_agent" >>

Rank(k) == CHOOSE n \in 1..Len(ExtractOrder) : ExtractOrder[n] = k

\* the positions of fs holding a field named k
Positions(fs, k) == {n \in 1..Len(fs) : fs[n].k = k}

\* the candidate spellings of a concept that hold a non-empty string
Holding(ctx, c) == {n \in 1..Len(c.keys) : Value(ctx, c.keys[n]) # ""}

FirstHolding(ctx, c) ==
  CHOOSE n \in Holding(ctx, c) : \A m \in Holding(ctx, c) : n <= m

\* C11: ExtractAllContextFields returns, for each business concept, exactly
\* one field when some candidate key holds a non-empty string (the first
\* such spelling gives the value) and none otherwise; the trace fields are
\* there exactly when tracing is enabled and the span is valid; all fields
\* follow the fixed order with the trace fields first, and none is empty.
C11_ExtractPerConcept ==
  result.fn = "ExtractAllContextFields" =>
    LET ctx == result.arg.ctx
        out == result.out
        traced == result.arg.enabled /\ ctx.span.valid
    IN /\ \A n \in 1..Len(BusinessKeys) :
            LET c == BusinessKeys[n]
                at == Positions(out, c.field)
            IN IF Holding(ctx, c) = {} THEN at = {}
               ELSE /\ Cardinality(at) = 1
                    /\ \A m \in at :
                         out[m].v = Value(ctx, c.keys[FirstHolding(ctx, c)])
       /\ Cardinality(Positions(out, "trace_id")) = IF traced THEN 1 ELSE 0
       /\ Cardinality(Positions(out, "span_id")) = IF traced THEN 1 ELSE 0
       /\ Cardinality(Positions(out, "trace_sampled"))
            = IF traced /\ ctx.span.sampled THEN 1 ELSE 0
       /\ \A m \in 1..Len(out) :
            /\ out[m].v # ""
            /\ \E r \in 1..Len(ExtractOrder) : ExtractOrder[r] = out[m].k
            /\ m > 1 => Rank(out[m - 1].k) < Rank(out[m].k)

\* C11 witness: a sampled span and two spellings of the request id holding
\* different values; the first spelling is the one returned, after the
\* trace fields.
C11_Witness ==
  /\ result.fn = "ExtractAllContextFields"
  /\ result.arg.enabled /\ result.arg.ctx.span.sampled
  /\ Value(result.arg.ctx, "request_id") = ""
  /\ Value(result.arg.ctx, "requestID") = "r2"
  /\ Value(result.arg.ctx, "x-request-id") = "r3"
  /\ Value(result.arg.ctx, "ip") # ""
  /\ Len(result.out) = 5
  /\ result.out[4] = Field("request_id", "r2")
  /\ result.out[5] = Field("client_ip", "10.0.0.1")

(***************************************************************************)
(* Part 3: WithContext.                                                    *)
(***************************************************************************)
\* C12: for every logger variant, every record emitted through the logger
\* WithContext(ctx) returned, by its non-context methods too, carries the
\* fields the variant extracts from ctx, and the fields bound to the
\* receiver stay as they were.
C12_WithContextBakes ==
  \A i \in DOMAIN heap :
    /\ heap[i].zapFields = heap[i].born
    /\ last.kind = "log" /\ last.emitted /\ last.by = i
       /\ heap[i].given # <<>>
       => CarriesAll(last.rec, ContextFieldsOf(heap[i], heap[i].given[1]))

(***************************************************************************)
(* Part 4: the sanitizer (types.go).  A field name is the sequence of its  *)
(* characters.                                                             *)
(***************************************************************************)
Uppers ==
  << "A", "B", "C", "D", "E", "F", "G", "H", "I", "J", "K", "L", "M",
     "N", "O", "P", "Q", "R", "S", "T", "U", "V", "W", "X", "Y", "Z" >>

Lowers ==
  << "a", "b", "c", "d", "e", "f", "g", "h", "i", "j", "k", "l", "m",
     "n", "o", "p", "q", "r", "s", "t", "u", "v", "w", "x", "y", "z" >>

\* the lower-case letter of every upper-case letter
LowerOf ==
  [c \in {Uppers[n] : n \in 1..Len(Uppers)} |->
     Lowers[CHOOSE n \in 1..Len(Uppers) : Uppers[n] = c]]

ToLowerChar(c) == IF c \in DOMAIN LowerOf THEN LowerOf[c] ELSE c

\* strings.ToLower
ToLower(name) == [n \in 1..Len(name) |-> ToLowerChar(name[n])]

\* an unanchored pattern of literal characters occurs in s
Contains(s, pattern) ==
  \E off \in 0..(Len(s) - Len(pattern)) :
    \A n \in 1..Len(pattern) : s[off + n] = pattern[n]

\* regexp.MatchString of a (?i) pattern of literal characters
MatchString(pattern, s) == Contains(ToLower(s), ToLower(pattern))

sensitiveFieldPatterns ==
  << <<"p", "a", "s", "s", "w", "o", "r", "d">>,
     <<"p", "a", "s", "s", "w", "d">>,
     <<"s", "e", "c", "r", "e", "t">>,
     <<"t", "o", "k", "e", "n">>,
     <<"k", "e", "y">>,
     <<"a", "u", "t", "h">>,
     <<"c", "r", "e", "d", "e", "n", "t", "i", "a", "l">>,
     <<"s", "e", "s", "s", "i", "o", "n">> >>

\* a custom set that keeps the name as it was written
AddStoresAsGiven(custom, fieldName) == custom \cup {fieldName}

\* customSensitiveFields[strings.ToLower(fieldName)] = true
AddStores(custom, fieldName) == custom \cup {ToLower(fieldName)}

\* delete(customSensitiveFields, strings.ToLower(fieldName))
RemoveDeletes(custom, fieldName) == custom \ {ToLower(fieldName)}

isSensitiveField(custom, key) ==
  LET lowerKey == ToLower(key) IN
  \/ lowerKey \in custom
  \/ \E n \in 1..Len(sensitiveFieldPatterns) :
       MatchString(sensitiveFieldPatterns[n], lowerKey)

Redacted == "[REDACTED]"

\* a replacement that also rewrites the key in lower case
RedactLowered(field) == Field(ToLower(field.k), Redacted)

\* zap.String(field.Key, "[REDACTED]")
Redact(field) == Field(field.k, Redacted)

SanitizeFields(custom, fields) ==
  [n \in 1..Len(fields) |->
     IF isSensitiveField(custom, fields[n].k) THEN Redact(fields[n])
     ELSE fields[n]]

\* the names handed to AddSensitiveField and RemoveSensitiveField
CustomNames == { <<"F", "o", "o">>, <<"F", "O", "O">>, <<"K", "e", "y">> }

\* the keys of the fields handed to SanitizeFields
FieldKeys ==
  { <<"f", "o", "o">>, <<"F", "O", "O">>, <<"f", "o", "o", "d">>,
    <<"a", "p", "i", "K", "E", "Y">>, <<"k", "e", "y">>,
    <<"i", "d">> }

\* the longest field list handed to SanitizeFields
MaxFields == 2

SanitizeInputs ==
  {<<>>}
  \cup {<<Field(k, "v1")>> : k \in FieldKeys}
  \cup {<<Field(k1, "v1"), Field(k2, "v2")>> :
          k1 \in FieldKeys, k2 \in {<<"i", "d">>, <<"F", "O", "O">>}}
  \cup {<<Field(k1, "v1"), Field(k2, "v2"), Field(k1, "v3")>> :
          k1 \in {<<"a", "p", "i", "K", "E", "Y">>, <<"f", "o", "o">>},
          k2 \in {<<"i", "d">>, <<"F", "O", "O">>}}

SanitizerFrame ==
  /\ UNCHANGED <<regVars, histVars, logVars, svcVars>>
  /\ UNCHANGED <<om, tee, delivery>>

\* the call history keeps the latest call of each spelling, in call order
Recorded(log, call) ==
  SelectSeq(log, LAMBDA e : e.name # call.name) \o <<call>>

AddSensitiveField(fieldName) ==
  /\ customSensitiveFields' = AddStores(customSensitiveFields, fieldName)
  /\ opsLog' = Recorded(opsLog, [op |-> "add", name |-> fieldName])
  /\ UNCHANGED result
  /\ SanitizerFrame

RemoveSensitiveField(fieldName) ==
  /\ customSensitiveFields' = RemoveDeletes(customSensitiveFields, fieldName)
  /\ opsLog' = Recorded(opsLog, [op |-> "remove", name |-> fieldName])
  /\ UNCHANGED result
  /\ SanitizerFrame

\* a call of SanitizeFields, and a second call on what the first returned;
\* custom is the custom set at the time of the call
Sanitize(fields) ==
  /\ Len(fields) <= MaxFields
  /\ LET once == SanitizeFields(customSensitiveFields, fields) IN
     result' = [fn |-> "SanitizeFields", arg |-> fields, out |-> once,
                custom |-> customSensitiveFields,
                again |-> SanitizeFields(customSensitiveFields, once)]
  /\ UNCHANGED <<customSensitiveFields, opsLog>>
  /\ SanitizerFrame

InitSanitize == RegistryIdle /\ InitLoggersIdle

NextSanitize ==
  \/ \E fieldName \in CustomNames : AddSensitiveField(fieldName)
  \/ \E fieldName \in CustomNames : RemoveSensitiveField(fieldName)
  \/ \E fields \in SanitizeInputs : Sanitize(fields)

SpecSanitize == InitSanitize /\ [][NextSanitize]_vars

\* two names are equal up to the case of their letters
EqFold(a, b) ==
  /\ Len(a) = Len(b)
  /\ \A n \in 1..Len(a) : ToLowerChar(a[n]) = ToLowerChar(b[n])

\* the pattern occurs in the key, up to the case of the letters
OccursFold(pattern, key) ==
  \E off \in 0..(Len(key) - Len(pattern)) :
    EqFold(pattern, [n \in 1..Len(pattern) |-> key[off + n]])

MatchesBuiltIn(key) ==
  \E n \in 1..Len(sensitiveFieldPatterns) :
    OccursFold(sensitiveFieldPatterns[n], key)

\* the key was added, under some spelling, and not removed since
AddedNotRemoved(key) ==
  \E n \in 1..Len(opsLog) :
    /\ opsLog[n].op = "add" /\ EqFold(opsLog[n].name, key)
    /\ \A m \in (n + 1)..Len(opsLog) :
         ~(opsLog[m].op = "remove" /\ EqFold(opsLog[m].name, key))

\* the key matches a built-in pattern or a member of the custom set
SensitiveKey(custom, key) ==
  \/ MatchesBuiltIn(key)
  \/ \E c \in custom : EqFold(c, key)

\* C19: SanitizeFields returns a list of the length and order of its input
\* in which every field with a sensitive key keeps its key and has the
\* value "[REDACTED]" and every other field is unchanged; sanitizing the
\* result again changes nothing.
C19_SanitizeRedactsInPlace ==
  result.fn = "SanitizeFields" =>
    /\ Len(result.out) = Len(result.arg)
    /\ \A n \in 1..Len(result.arg) :
         IF SensitiveKey(result.custom, result.arg[n].k)
           THEN result.out[n] = Field(result.arg[n].k, "[REDACTED]")
           ELSE result.out[n] = result.arg[n]
    /\ result.again = result.out

\* C19 witness: with "Foo" added, a list holding "food" and "FOO" comes
\* back with "food" untouched and "FOO" redacted under its own spelling.
C19_Witness ==
  /\ opsLog = <<[op |-> "add", name |-> <<"F", "o", "o">>]>>
  /\ result.fn = "SanitizeFields"
  /\ result.arg = << Field(<<"f", "o", "o", "d">>, "v1"),
                     Field(<<"F", "O", "O">>, "v2") >>
  /\ result.out = << Field(<<"f", "o", "o", "d">>, "v1"),
                     Field(<<"F", "O", "O">>, "[REDACTED]") >>

\* C20: after any sequence of AddSensitiveField and RemoveSensitiveField
\* calls a key is sensitive exactly when it matches a built-in pattern or
\* was added, under any spelling of its letters' case, and not removed
\* since; a key matching a built-in pattern is sensitive whatever was
\* removed.
C20_CustomSetFoldsCase ==
  \A key \in FieldKeys \cup CustomNames :
    /\ isSensitiveField(customSensitiveFields, key)
         <=> (MatchesBuiltIn(key) \/ AddedNotRemoved(key))
    /\ MatchesBuiltIn(key) => isSensitiveField(customSensitiveFields, key)

\* C20 witness: "Foo" was added and "Key" removed: "key" and "apiKEY" are
\* still sensitive, "FOO" and "foo" are sensitive and "food" is not.
C20_Witness ==
  /\ opsLog = << [op |-> "add", name |-> <<"F", "o", "o">>],
                 [op |-> "remove", name |-> <<"K", "e", "y">>] >>
  /\ isSensitiveField(customSensitiveFields, <<"f", "o", "o">>)
  /\ isSensitiveField(customSensitiveFields, <<"k", "e", "y">>)
  /\ isSensitiveField(customSensitiveFields, <<"a", "p", "i", "K", "E", "Y">>)
  /\ isSensitiveField(customSensitiveFields, <<"F", "O", "O">>)
  /\ ~isSensitiveField(customSensitiveFields, <<"f", "o", "o", "d">>)

(***************************************************************************)
(* Part 4: sensitive fields in the records of a logger.                    *)
(***************************************************************************)
\* the field name "password", character by character
PasswordName == <<"p", "a", "s", "s", "w", "o", "r", "d">>

\* the fields handed to Info("login", ...)
LoginFields ==
  { <<Field("password", "hunter2")>>,
    <<Field("user", "bob"), Field("password", "hunter2")>>,
    <<Field("user", "bob")>> }

\* a logger built by the factory that lets Info through
InitRedact ==
  /\ RegistryIdle
  /\ \E config \in Configs :
       /\ config.Level \in {DebugLevel, InfoLevel}
       /\ OneLogger(Construct("factory", config))
  /\ sameTick = FALSE

NextRedact ==
  \/ AddSensitiveField(PasswordName)
  \/ RemoveSensitiveField(PasswordName)
  \/ \E i \in Objects, fields \in LoginFields : Log(i, InfoLevel, fields)

SpecRedact == InitRedact /\ [][NextRedact]_vars

\* C13: with "password" configured as a sensitive field, Info("login",
\* password = "hunter2") on a logger built by the factory emits a record
\* whose password is "[REDACTED]"; "hunter2" is in no record.
C13_PasswordRedacted ==
  /\ last.kind = "log" /\ last.emitted /\ last.lvl = InfoLevel
  /\ heap[last.by].factory
  /\ AddedNotRemoved(PasswordName)
  /\ isSensitiveField(customSensitiveFields, PasswordName)
  /\ Carries(last.explicit, Field("password", "hunter2"))
  => /\ Carries(last.rec, Field("password", "[REDACTED]"))
     /\ ~Carries(last.rec, Field("password", "hunter2"))

(***************************************************************************)
(* Part 5: the output manager (output.go).  A core is a sink with the      *)
(* level it lets through.                                                  *)
(***************************************************************************)
Core(sink, level, path) == [sink |-> sink, level |-> level, path |-> path]

\* the most cores a manager is given
MaxSinks == 3

SinkLevels == {ZapInfo, ZapWarn}

LogPath == "logs/app.log"

\* om.cores = append(om.cores, core) on os.Stdout
AddConsoleOutput(cores, level) == Append(cores, Core("console", level, ""))

\* os.MkdirAll may fail; then no core is added and the error is returned
AddFileOutput(cores, filename, level, mkdirFails) ==
  IF mkdirFails THEN [cores |-> cores, err |-> TRUE]
  ELSE [cores |-> Append(cores, Core("file", level, filename)),
        err |-> FALSE]

\* a manager that keeps a core for the remote output although it fails
AddRemoteOutputKeepsCore(cores, level) ==
  [cores |-> Append(cores, Core("remote", level, "")), err |-> TRUE]

\* "remote output not implemented yet"
AddRemoteOutput(cores, level) == [cores |-> cores, err |-> TRUE]

\* OutputManager.CreateTeeCore, as the cores the returned core writes to
TeeCore(cores) ==
  IF Len(cores) = 0 THEN <<Core("console", ZapInfo, "")>>
  ELSE IF Len(cores) = 1 THEN <<cores[1]>>
  ELSE cores

TeeKind(cores) ==
  IF Len(cores) = 0 THEN "default"
  ELSE IF Len(cores) = 1 THEN "single" ELSE "tee"

\* the positions of the cores that let the level through, in order
RECURSIVE Checked(_, _, _)
Checked(cores, level, n) ==
  IF n > Len(cores) THEN <<>>
  ELSE (IF cores[n].level <= level THEN <<n>> ELSE <<>>)
       \o Checked(cores, level, n + 1)

\* a fan-out that gives up at the first sink whose write fails
RECURSIVE WriteUntilFailure(_, _, _)
WriteUntilFailure(cores, checked, failing) ==
  IF checked = <<>> THEN <<>>
  ELSE <<[n |-> Head(checked), core |-> cores[Head(checked)],
          failed |-> Head(checked) \in failing]>>
       \o (IF Head(checked) \in failing THEN <<>>
           ELSE WriteUntilFailure(cores, Tail(checked), failing))

\* CheckedEntry.Write: every checked core is written to, the errors are
\* collected
WriteAll(cores, checked, failing) ==
  [p \in 1..Len(checked) |->
     [n |-> checked[p], core |-> cores[checked[p]],
      failed |-> checked[p] \in failing]]

OutputFrame == UNCHANGED <<regVars, histVars, logVars, svcVars>>
               /\ UNCHANGED <<customSensitiveFields, opsLog>>

AddConsole(level) ==
  /\ Len(om) < MaxSinks
  /\ om' = AddConsoleOutput(om, level)
  /\ result' = [fn |-> "AddConsoleOutput", arg |-> level,
                out |-> [err |-> FALSE], before |-> om]
  /\ UNCHANGED <<tee, delivery>>
  /\ OutputFrame

AddFile(level, mkdirFails) ==
  /\ Len(om) < MaxSinks
  /\ LET r == AddFileOutput(om, LogPath, level, mkdirFails) IN
     /\ om' = r.cores
     /\ result' = [fn |-> "AddFileOutput", arg |-> level,
                   out |-> [err |-> r.err], before |-> om]
  /\ UNCHANGED <<tee, delivery>>
  /\ OutputFrame

AddRemote(level) ==
  /\ LET r == AddRemoteOutput(om, level) IN
     /\ om' = r.cores
     /\ result' = [fn |-> "AddRemoteOutput", arg |-> level,
                   out |-> [err |-> r.err], before |-> om]
  /\ UNCHANGED <<tee, delivery>>
  /\ OutputFrame

\* CreateTeeCore of the manager; from is the sink list it was called on
CombineCores ==
  /\ tee' = [kind |-> TeeKind(om), cores |-> TeeCore(om), from |-> om]
  /\ result' = [fn |-> "CreateTeeCore", arg |-> om, out |-> TeeCore(om)]
  /\ delivery' = <<>>
  /\ UNCHANGED om
  /\ OutputFrame

\* a record of the level goes through the combined core; the writes of the
\* sinks in failing return an error
WriteRecord(level, failing) ==
  /\ tee.kind # "none"
  /\ failing \subseteq 1..Len(tee.cores)
  /\ delivery' = WriteAll(tee.cores, Checked(tee.cores, level, 1), failing)
  /\ result' = [fn |-> "Write", arg |-> [level |-> level, failing |-> failing],
                out |-> <<>>]
  /\ UNCHANGED <<om, tee>>
  /\ OutputFrame

\* the configurations handed to CreateLoggerWithOutputs
OutputConfigs ==
  {LoggerConfig(lv, fmt, con, file, rem, FALSE) :
     lv \in {InfoLevel}, fmt \in {"json", "console"},
     con \in BOOLEAN, file \in BOOLEAN, rem \in BOOLEAN}

\* CreateLoggerWithOutputs on a new manager: the cores it adds, the core it
\* combines and what it returns; warned: the remote output was given up
WithOutputs(config, mkdirFails) ==
  LET level == levelToZapLevel(config.Level)
      c1 == IF shouldAddConsoleOutput(config)
              THEN AddConsoleOutput(<<>>, level) ELSE <<>>
      f == IF shouldAddFileOutput(config)
             THEN AddFileOutput(c1, config.Path, level, mkdirFails)
             ELSE [cores |-> c1, err |-> FALSE]
      r == IF shouldAddRemoteOutput(config)
             THEN AddRemoteOutput(f.cores, level)
             ELSE [cores |-> f.cores, err |-> FALSE]
  IN IF f.err
       THEN [logger |-> FALSE, err |-> TRUE, cores |-> c1, sinks |-> <<>>,
             warned |-> FALSE]
       ELSE [logger |-> TRUE, err |-> FALSE, cores |-> r.cores,
             sinks |-> TeeCore(r.cores), warned |-> r.err]

BuildWithOutputs(config, mkdirFails) ==
  /\ LET b == WithOutputs(config, mkdirFails) IN
     /\ om' = b.cores
     /\ tee' = IF b.logger
                 THEN [kind |-> TeeKind(b.cores), cores |-> b.sinks,
                       from |-> b.cores]
                 ELSE NoTee
     /\ result' = [fn |-> "CreateLoggerWithOutputs",
                   arg |-> [config |-> config, mkdirFails |-> mkdirFails],
                   out |-> b]
  /\ delivery' = <<>>
  /\ OutputFrame

InitOutputs == RegistryIdle /\ InitLoggersIdle

NextOutputs ==
  \/ \E level \in SinkLevels : AddConsole(level)
  \/ \E level \in SinkLevels, mkdirFails \in BOOLEAN :
       AddFile(level, mkdirFails)
  \/ \E level \in SinkLevels : AddRemote(level)
  \/ CombineCores
  \/ \E level \in SinkLevels, failing \in SUBSET (1..MaxSinks) :
       WriteRecord(level, failing)
  \/ \E config \in OutputConfigs, mkdirFails \in BOOLEAN :
       BuildWithOutputs(config, mkdirFails)

SpecOutputs == InitOutputs /\ [][NextOutputs]_vars

\* the sinks of the list that let the level through
Letting(cores, level) == {n \in 1..Len(cores) : cores[n].level <= level}

\* C14: CreateTeeCore returns a single console sink at Info when no sink
\* was added, the one added sink itself when exactly one was added, and
\* otherwise a fan-out over the added sinks; a record goes to every sink of
\* the combined core that lets its level through, in the order the sinks
\* were added, whether or not the write of an earlier sink failed.
C14_TeeCoreFansOut ==
  tee.kind # "none" =>
    /\ Len(tee.from) = 0 => tee.cores = <<Core("console", ZapInfo, "")>>
    /\ Len(tee.from) = 1 => tee.cores = <<tee.from[1]>>
    /\ Len(tee.from) > 1 => tee.cores = tee.from
    /\ result.fn = "Write" =>
         /\ {delivery[p].n : p \in 1..Len(delivery)}
              = Letting(tee.cores, result.arg.level)
         /\ \A p \in 1..Len(delivery) :
              /\ delivery[p].core = tee.cores[delivery[p].n]
              /\ delivery[p].failed <=> delivery[p].n \in result.arg.failing
              /\ p > 1 => delivery[p - 1].n < delivery[p].n

\* C14 witness: three sinks were added and combined; the write of the first
\* fails and the record still reaches the second and the third.
C14_Witness ==
  /\ tee.kind = "tee" /\ Len(tee.cores) = 3
  /\ tee.cores[1].sink = "console" /\ tee.cores[2].sink = "file"
  /\ result.fn = "Write" /\ result.arg.failing = {1}
  /\ Len(delivery) = 3
  /\ delivery[1].failed /\ ~delivery[2].failed /\ ~delivery[3].failed

\* the cores CreateLoggerWithOutputs is left with when the remote output
\* is given up
RemainingSinks(config) ==
  (IF config.Console \/ config.Format \in {"console", ""}
     THEN <<Core("console", levelToZapLevel(config.Level), "")>> ELSE <<>>)
  \o (IF config.File /\ config.Path # ""
        THEN <<Core("file", levelToZapLevel(config.Level), config.Path)>>
        ELSE <<>>)

FactoryConfigs ==
  { [Level |-> lv, Format |-> fmt, ServiceName |-> sn, Version |-> ver,
     Environment |-> env, Console |-> con, File |-> file, Path |-> path,
     Remote |-> rem, Endpoint |-> ep, Tracing |-> tr] :
      lv \in CfgLevels, fmt \in CfgFormats, sn \in {"", "svc"},
      ver \in {"", "2.0"}, env \in {"", "prod"}, con \in BOOLEAN,
      file \in BOOLEAN, path \in {"", "logs/app.log"},
      rem \in BOOLEAN, ep \in {"", "collector:4317"}, tr \in BOOLEAN }

FilePaths == {"", "logs/app.log", "/var/log/svc.log"}

\* the sinks the logger of the factory writes to: the cores of the output
\* manager, or stdout for the single-sink logger (buildZapConfig)
FactorySinks(config, mkdirFails) ==
  LET mergedConfig == mergeWithDefaults(config) IN
  IF hasMultipleOutputs(mergedConfig)
    THEN WithOutputs(mergedConfig, mkdirFails)
    ELSE [logger |-> TRUE, err |-> FALSE, cores |-> <<>>,
          sinks |-> <<Core("console", levelToZapLevel(mergedConfig.Level),
                           "")>>,
          warned |-> FALSE]

\* the configuration CreateFileLogger hands to CreateLogger
FileLoggerConfig(filePath) ==
  [Level |-> 0, Format |-> "", ServiceName |-> "", Version |-> "",
   Environment |-> "", Console |-> FALSE, File |-> TRUE, Path |-> filePath,
   Remote |-> FALSE, Endpoint |-> "", Tracing |-> FALSE]

FactoryFrame ==
  /\ UNCHANGED <<regVars, histVars, logVars, svcVars>>
  /\ UNCHANGED <<customSensitiveFields, opsLog, om, tee, delivery>>

\* the functions of the factory keep no state: one call per run
NotCalled == result = NoResult

Merge(config) ==
  /\ NotCalled
  /\ result' = [fn |-> "mergeWithDefaults", arg |-> config,
                out |-> mergeWithDefaults(config)]
  /\ FactoryFrame

SelectPath(config) ==
  /\ NotCalled
  /\ result' = [fn |-> "CreateLogger", arg |-> config,
                out |-> CreateLogger(config)]
  /\ FactoryFrame

\* CreateFileLogger; written: the sinks an Info record of the logger is
\* written to
CreateFileLogger(filePath, mkdirFails) ==
  /\ NotCalled
  /\ LET config == FileLoggerConfig(filePath)
         b == FactorySinks(config, mkdirFails)
     IN result' = [fn |-> "CreateFileLogger",
                   arg |-> [filePath |-> filePath, mkdirFails |-> mkdirFails],
                   out |-> [logger |-> b.logger, err |-> b.err,
                            made |-> IF b.logger
                                       THEN <<CreateLogger(config)>>
                                       ELSE <<>>,
                            written |-> WriteAll(b.sinks,
                                                 Checked(b.sinks, ZapInfo, 1),
                                                 {})]]
  /\ FactoryFrame

InitFactory == RegistryIdle /\ InitLoggersIdle

NextFactory ==
  \/ \E config \in FactoryConfigs : Merge(config)
  \/ \E config \in FactoryConfigs : SelectPath(config)
  \/ \E filePath \in FilePaths, mkdirFails \in BOOLEAN :
       CreateFileLogger(filePath, mkdirFails)

SpecFactory == InitFactory /\ [][NextFactory]_vars

\* the output targets that are enabled and have somewhere to write to
EnabledTargets(config) ==
  {t \in {"console", "file", "remote"} :
     \/ t = "console" /\ (config.Console \/ config.Format \in {"console", ""})
     \/ t = "file" /\ config.File /\ config.Path # ""
     \/ t = "remote" /\ config.Remote /\ config.Endpoint # ""}

\* C16: CreateLogger chooses, over the merged configuration: with tracing
\* enabled the traced wrapper, over the multi-output logger when more than
\* one output target is enabled and over the basic logger otherwise;
\* without tracing the multi-output logger when more than one output target
\* is enabled and the single-sink logger otherwise.
C16_PathByPriority ==
  result.fn = "CreateLogger" =>
    LET m == mergeWithDefaults(result.arg)
        many == Cardinality(EnabledTargets(m)) > 1
        made == result.out
    IN /\ made.traced <=> m.Tracing
       /\ made.kind = IF many THEN "multi" ELSE "core"
       /\ made.kind \in {"multi", "core"}
       /\ made.factory

\* C16 witness: tracing and two output targets: the traced wrapper over the
\* multi-output logger.
C16_Witness ==
  /\ result.fn = "CreateLogger"
  /\ result.arg.Tracing /\ result.arg.File /\ result.arg.Path # ""
  /\ result.arg.Format = "json" /\ ~result.arg.Remote
  /\ result.out.traced /\ result.out.kind = "multi"

\* the zero value of a field of LoggerConfig
ZeroOf(f) == IF f = "Level" THEN 0 ELSE ""

\* C17: mergeWithDefaults takes each of Level, Format, ServiceName, Version
\* and Environment from the input when it is non-zero there, each of the
\* console, file, remote and tracing sections from the input when its
\* Enabled flag is set there, and from the default otherwise; Debug
\* overrides the default level and Info yields Info.
C17_MergeFieldWise ==
  result.fn = "mergeWithDefaults" =>
    LET in == result.arg
        out == result.out
        d == DefaultLoggerConfig
    IN /\ \A f \in {"Level", "Format", "ServiceName", "Version",
                    "Environment"} :
            out[f] = IF in[f] # ZeroOf(f) THEN in[f] ELSE d[f]
       /\ out.Console = IF in.Console THEN in.Console ELSE d.Console
       /\ <<out.File, out.Path>>
            = IF in.File THEN <<in.File, in.Path>> ELSE <<d.File, d.Path>>
       /\ <<out.Remote, out.Endpoint>>
            = IF in.Remote THEN <<in.Remote, in.Endpoint>>
              ELSE <<d.Remote, d.Endpoint>>
       /\ out.Tracing = IF in.Tracing THEN in.Tracing ELSE d.Tracing
       /\ in.Level = DebugLevel => out.Level = DebugLevel
       /\ in.Level = InfoLevel => out.Level = InfoLevel

\* C17 witness: Debug, a service name and a path under a disabled file
\* output come in; Debug and the name are kept, the path is dropped and the
\* rest is the default.
C17_Witness ==
  /\ result.fn = "mergeWithDefaults"
  /\ result.arg.Level = DebugLevel /\ result.arg.ServiceName = "svc"
  /\ ~result.arg.File /\ result.arg.Path = "logs/app.log"
  /\ result.arg.Format = "" /\ result.arg.Version = ""
  /\ result.out.Level = DebugLevel /\ result.out.ServiceName = "svc"
  /\ result.out.Path = "" /\ result.out.Format = "console"
  /\ result.out.Version = "1.0.0"

\* C18: the only sink of the logger CreateFileLogger(path) builds is the
\* file at path: a record it emits is written to that file and to no
\* console.
C18_FileLoggerFileOnly ==
  result.fn = "CreateFileLogger" /\ result.out.logger =>
    /\ Len(result.out.written) = 1
    /\ \A n \in 1..Len(result.out.written) :
         /\ result.out.written[n].core.sink = "file"
         /\ result.out.written[n].core.path = result.arg.filePath

(***************************************************************************)
(* Part 7: the Connect logging interceptor (middleware.go).  The events    *)
(* are the calls the wrapper makes on its logger, in the order it makes    *)
(* them.  A duration is a number of nanoseconds.                           *)
(***************************************************************************)
DefaultMaxBodySize == 4096
DefaultSlowThreshold == 1000
Millisecond == 1000000

\* time.Duration.Milliseconds
Milliseconds(duration) == duration \div Millisecond

MiddlewareConfig(req, resp, hdr, sens, body, slow) ==
  [LogRequests |-> req, LogResponses |-> resp, LogHeaders |-> hdr,
   SensitiveFields |-> sens, MaxBodySize |-> body, SlowThreshold |-> slow]

\* an interceptor that keeps the slow threshold as it was configured
NewInterceptorKeepsThreshold(config) ==
  [made |-> TRUE, given |-> config,
   config |-> [config EXCEPT
     !.MaxBodySize = IF @ <= 0 THEN DefaultMaxBodySize ELSE @]]

\* NewConnectLoggingInterceptor: the configuration the interceptor keeps,
\* and the one it was given
NewConnectLoggingInterceptor(config) ==
  [made |-> TRUE, given |-> config,
   config |-> [config EXCEPT
     !.MaxBodySize = IF @ <= 0 THEN DefaultMaxBodySize ELSE @,
     !.SlowThreshold = IF @ <= 0 THEN DefaultSlowThreshold ELSE @]]

\* the error values a wrapped call returns: nil, an error of another type,
\* a *connect.Error, and an error that wraps a *connect.Error
NoError == [kind |-> "nil", code |-> "", msg |-> ""]
PlainError == [kind |-> "plain", code |-> "", msg |-> "boom"]
ConnectError == [kind |-> "connect", code |-> "not_found", msg |-> "no user"]
WrappedError == [kind |-> "wrapped", code |-> "not_found", msg |-> "no user"]
Errors == {NoError, PlainError, ConnectError, WrappedError}

\* err.(*connect.Error)
IsConnectError(err) == err.kind = "connect"

\* the nil response
NoResponse == [header |-> <<>>, any |-> FALSE, nil |-> TRUE]

Event(lvl, msg, fields, headers, timing) ==
  [lvl |-> lvl, msg |-> msg, fields |-> fields, headers |-> headers,
   timing |-> timing]

NoHeaders == <<>>

\* the commonSensitive list of the interceptor's isSensitiveField
commonSensitive ==
  << <<"a", "u", "t", "h", "o", "r", "i", "z", "a", "t", "i", "o", "n">>,
     <<"c", "o", "o", "k", "i", "e">>,
     <<"x", "-", "a", "p", "i", "-", "k", "e", "y">>,
     <<"x", "-", "a", "u", "t", "h", "-", "t", "o", "k", "e", "n">>,
     <<"a", "u", "t", "h", "e", "n", "t", "i", "c", "a", "t", "i", "o", "n">>,
     <<"x", "-", "a", "c", "c", "e", "s", "s", "-", "t", "o", "k", "e", "n">>,
     <<"b", "e", "a", "r", "e", "r">>,
     <<"p", "a", "s", "s", "w", "o", "r", "d">> >>

\* ConnectLoggingInterceptor.isSensitiveField
InterceptorIsSensitive(config, fieldName) ==
  LET lowerField == ToLower(fieldName) IN
  \/ \E n \in 1..Len(config.SensitiveFields) :
       ToLower(config.SensitiveFields[n]) = lowerField
  \/ \E n \in 1..Len(commonSensitive) :
       \/ lowerField = commonSensitive[n]
       \/ Contains(lowerField, commonSensitive[n])

\* strings.Join(values, ","), as the list of its pieces
Join(values) ==
  [n \in 1..(2 * Len(values) - 1) |->
     IF n % 2 = 1 THEN values[(n + 1) \div 2] ELSE ","]

\* the headers map built by extractRequestFields and extractResponseFields
LoggedHeaders(config, header) ==
  [key \in DOMAIN header |->
     IF ~InterceptorIsSensitive(config, key) THEN Join(header[key])
     ELSE <<Redacted>>]

NoExtract == [fields |-> <<>>, headers |-> NoHeaders]

\* extractRequestFields; the headers map goes under "request_headers"
extractRequestFields(config, req) ==
  [fields |->
     (IF config.LogHeaders /\ DOMAIN req.header # {}
      THEN <<Field("request_headers", "map")>> ELSE <<>>)
     \o (IF req.any THEN <<Field("request_type", "T")>> ELSE <<>>),
   headers |->
     IF config.LogHeaders THEN LoggedHeaders(config, req.header)
     ELSE NoHeaders]

\* extractResponseFields; the headers map goes under "response_headers"
extractResponseFields(config, resp) ==
  [fields |->
     (IF config.LogHeaders /\ DOMAIN resp.header # {}
      THEN <<Field("response_headers", "map")>> ELSE <<>>)
     \o (IF resp.any THEN <<Field("response_type", "T")>> ELSE <<>>),
   headers |->
     IF config.LogHeaders THEN LoggedHeaders(config, resp.header)
     ELSE NoHeaders]

\* the header names of the requests and responses
HdrAuthorization == <<"A", "u", "t", "h", "o", "r", "i", "z", "a", "t", "i", "o", "n">>
HdrSecret == <<"X", "-", "S", "e", "c", "r", "e", "t">>
HdrTrace == <<"X", "-", "T", "r", "a", "c", "e">>
HdrToken == <<"T", "o", "k", "e", "n">>
HdrTenant == <<"X", "-", "T", "e", "n", "a", "n", "t">>

HeaderMaps ==
  { <<>>,
    (HdrAuthorization :> <<"a1">>),
    (HdrTrace :> <<"t1", "t2">>),
    (HdrSecret :> <<"s1">>) @@ (HdrTrace :> <<"t1">>),
    (HdrToken :> <<"k1">>) @@ (HdrTenant :> <<"n1">>) }

Requests ==
  {[procedure |-> "/user.v1.UserService/GetUser", header |-> h,
    any |-> DOMAIN h # {}] : h \in HeaderMaps}

Responses ==
  {NoResponse}
  \cup {[header |-> h, any |-> TRUE, nil |-> FALSE] :
          h \in {<<>>, (HdrSecret :> <<"s2">>)}}

\* the durations time.Since returns, around the thresholds
Durations ==
  {0, 500999999, 501000000, 1000999999, 1001000000}

SlowThresholds == {-1, 0, 500}

MiddlewareConfigs ==
  {MiddlewareConfig(req, resp, hdr, sens, 0, slow) :
     req \in BOOLEAN, resp \in BOOLEAN, hdr \in BOOLEAN,
     sens \in {<<>>, <<HdrToken>>}, slow \in SlowThresholds}

InterceptorFrame ==
  /\ UNCHANGED <<regVars, histVars, logVars>>
  /\ UNCHANGED auxVars
  /\ UNCHANGED <<globalConfig, configMu, cfgArg, cfgRet, gw>>

NewInterceptor(config) ==
  /\ ~interceptor.made
  /\ interceptor' = NewConnectLoggingInterceptor(config)
  /\ UNCHANGED <<rpc, events>>
  /\ InterceptorFrame

\* a wrapper call may begin when none is in progress
MayWrap == interceptor.made /\ rpc.pc \in {"idle", "returned", "open"}

BaseFields7(req) ==
  <<Field("method", "unary"), Field("procedure", req.procedure),
    Field("start_time", "startTime")>>

\* the error fields without the Connect error code and message
FailureFieldsNoCode(err) ==
  <<Field("error", err.msg), Field("status", "error")>>

\* the error fields of WrapUnary's end event
FailureFields(err) ==
  <<Field("error", err.msg), Field("status", "error")>>
  \o (IF IsConnectError(err)
      THEN <<Field("error_code", err.code), Field("error_message", err.msg)>>
      ELSE <<>>)

\* WrapUnary up to the call of next: the start event
UnaryBegin(req) ==
  /\ MayWrap
  /\ LET config == interceptor.config
         x == IF config.LogRequests THEN extractRequestFields(config, req)
              ELSE NoExtract
     IN events' = <<Event(InfoLevel, "RPC request started",
                          BaseFields7(req) \o x.fields, x.headers, <<>>)>>
  /\ rpc' = [kind |-> "unary", pc |-> "started", req |-> req, invoked |-> 0,
             resp |-> NoResponse, err |-> NoError]
  /\ UNCHANGED interceptor
  /\ InterceptorFrame

\* resp, err := next(ctx, req)
UnaryNext(resp, err) ==
  /\ rpc.kind = "unary" /\ rpc.pc = "started"
  /\ rpc' = [rpc EXCEPT !.pc = "called", !.invoked = @ + 1,
                        !.resp = resp, !.err = err]
  /\ UNCHANGED <<interceptor, events>>
  /\ InterceptorFrame

\* WrapUnary after next returned: the end event and the return
UnaryEnd(duration) ==
  /\ rpc.kind = "unary" /\ rpc.pc = "called"
  /\ LET config == interceptor.config
         x == IF config.LogResponses /\ ~rpc.resp.nil
              THEN extractResponseFields(config, rpc.resp) ELSE NoExtract
         responseFields ==
           <<Field("procedure", rpc.req.procedure), Field("duration", "d"),
             Field("duration_ms", "ms")>> \o x.fields
         slow == Milliseconds(duration) > config.SlowThreshold
     IN events' = Append(events,
          IF rpc.err # NoError
          THEN Event(ErrorLevel, "RPC request failed",
                     responseFields \o FailureFields(rpc.err),
                     x.headers, <<duration>>)
          ELSE IF slow
          THEN Event(WarnLevel, "RPC request completed (slow)",
                     responseFields \o <<Field("status", "success"),
                                         Field("slow_request", "true")>>,
                     x.headers, <<duration>>)
          ELSE Event(InfoLevel, "RPC request completed",
                     responseFields \o <<Field("status", "success")>>,
                     x.headers, <<duration>>))
  /\ rpc' = [kind |-> "unary", pc |-> "returned", req |-> rpc.req,
             invoked |-> rpc.invoked, resp |-> rpc.resp, err |-> rpc.err,
             ret |-> <<rpc.resp, rpc.err>>]
  /\ UNCHANGED interceptor
  /\ InterceptorFrame

Procedures == {"/order.v1.OrderService/Watch"}

StreamFields(method, procedure) ==
  <<Field("method", method), Field("procedure", procedure),
    Field("start_time", "startTime")>>

\* WrapStreamingHandler up to the call of next: the start event
HandlerBegin(procedure) ==
  /\ MayWrap
  /\ events' = <<Event(InfoLevel, "Streaming handler started",
                       StreamFields("streaming_handler", procedure),
                       NoHeaders, <<>>)>>
  /\ rpc' = [kind |-> "handler", pc |-> "started", procedure |-> procedure,
             invoked |-> 0, err |-> NoError]
  /\ UNCHANGED interceptor
  /\ InterceptorFrame

\* err := next(ctx, conn)
HandlerNext(err) ==
  /\ rpc.kind = "handler" /\ rpc.pc = "started"
  /\ rpc' = [rpc EXCEPT !.pc = "called", !.invoked = @ + 1, !.err = err]
  /\ UNCHANGED <<interceptor, events>>
  /\ InterceptorFrame

\* WrapStreamingHandler after next returned: the end event and the return
HandlerEnd(duration) ==
  /\ rpc.kind = "handler" /\ rpc.pc = "called"
  /\ LET responseFields ==
           <<Field("procedure", rpc.procedure), Field("duration", "d")>>
     IN events' = Append(events,
          IF rpc.err # NoError
          THEN Event(ErrorLevel, "Streaming handler failed",
                     responseFields \o <<Field("error", rpc.err.msg),
                                         Field("status", "error")>>,
                     NoHeaders, <<duration>>)
          ELSE Event(InfoLevel, "Streaming handler completed",
                     responseFields \o <<Field("status", "success")>>,
                     NoHeaders, <<duration>>))
  /\ rpc' = [kind |-> "handler", pc |-> "returned",
             procedure |-> rpc.procedure, invoked |-> rpc.invoked,
             err |-> rpc.err, ret |-> <<rpc.err>>]
  /\ UNCHANGED interceptor
  /\ InterceptorFrame

\* WrapStreamingClient: the start event, next, and the wrapped connection
ClientOpen(procedure) ==
  /\ MayWrap
  /\ events' = <<Event(InfoLevel, "Streaming client started",
                       StreamFields("streaming_client", procedure),
                       NoHeaders, <<>>)>>
  /\ rpc' = [kind |-> "client", pc |-> "open", procedure |-> procedure,
             call |-> "WrapStreamingClient", err |-> NoError,
             ret |-> <<"conn">>]
  /\ UNCHANGED interceptor
  /\ InterceptorFrame

\* a CloseRequest that logs whatever the inner CloseRequest returned
CloseRequestAlwaysLogs(procedure, err) ==
  <<Event(ErrorLevel, "Failed to close streaming request",
          <<Field("procedure", procedure), Field("error", err.msg)>>,
          NoHeaders, <<>>)>>

\* the logging calls of wrappedStreamingClientConn.CloseRequest
CloseRequestEvents(procedure, err) ==
  IF err # NoError
  THEN <<Event(ErrorLevel, "Failed to close streaming request",
               <<Field("procedure", procedure), Field("error", err.msg)>>,
               NoHeaders, <<>>)>>
  ELSE <<>>

\* wrappedStreamingClientConn.CloseRequest; err is what the inner
\* connection's CloseRequest returned
CloseRequest(err) ==
  /\ rpc.kind = "client" /\ rpc.pc = "open"
  /\ events' = CloseRequestEvents(rpc.procedure, err)
  /\ rpc' = [rpc EXCEPT !.call = "CloseRequest", !.err = err,
                        !.ret = <<err>>]
  /\ UNCHANGED interceptor
  /\ InterceptorFrame

\* wrappedStreamingClientConn.CloseResponse
CloseResponse(err, duration) ==
  /\ rpc.kind = "client" /\ rpc.pc = "open"
  /\ LET fields == <<Field("procedure", rpc.procedure),
                     Field("total_duration", "d")>>
     IN events' =
          IF err # NoError
          THEN <<Event(ErrorLevel,
                       "Streaming client connection closed with error",
                       fields \o <<Field("error", err.msg),
                                   Field("status", "error")>>,
                       NoHeaders, <<duration>>)>>
          ELSE <<Event(InfoLevel, "Streaming client connection closed",
                       fields \o <<Field("status", "success")>>,
                       NoHeaders, <<duration>>)>>
  /\ rpc' = [rpc EXCEPT !.call = "CloseResponse", !.err = err,
                        !.ret = <<err>>]
  /\ UNCHANGED interceptor
  /\ InterceptorFrame

\* the field names handed to AddSensitiveField while the interceptor runs
HeaderCustomNames == {HdrTenant}

\* AddSensitiveField, called before the interceptor serves its first call
AddBeforeCalls(fieldName) == rpc = NoRpc /\ AddSensitiveField(fieldName)

InitInterceptor == RegistryIdle /\ InitLoggersIdle

NextInterceptor ==
  \/ \E config \in MiddlewareConfigs : NewInterceptor(config)
  \/ \E req \in Requests : UnaryBegin(req)
  \/ \E resp \in Responses, err \in Errors : UnaryNext(resp, err)
  \/ \E duration \in Durations : UnaryEnd(duration)
  \/ \E procedure \in Procedures : HandlerBegin(procedure)
  \/ \E err \in Errors : HandlerNext(err)
  \/ \E duration \in Durations : HandlerEnd(duration)
  \/ \E procedure \in Procedures : ClientOpen(procedure)
  \/ \E err \in Errors : CloseRequest(err)
  \/ \E err \in Errors, duration \in Durations : CloseResponse(err, duration)
  \/ \E fieldName \in HeaderCustomNames : AddBeforeCalls(fieldName)

SpecInterceptor == InitInterceptor /\ [][NextInterceptor]_vars

\* an event carries the named field
HasField(e, k) == Positions(e.fields, k) # {}

\* the value of the named field of an event that carries it once
ValueOf(e, k) == e.fields[CHOOSE n \in Positions(e.fields, k) : TRUE].v

IsStartEvent(e) == HasField(e, "start_time") /\ ~HasField(e, "status")

IsEndEvent(e) ==
  Cardinality(Positions(e.fields, "status")) = 1 /\ ~HasField(e, "start_time")

StatusFor(err) == IF err # NoError THEN "error" ELSE "success"

\* C21: WrapUnary logs exactly one start event before it invokes the
\* wrapped call, invokes the call exactly once, and logs exactly one end
\* event after the call returned; the end event's status is "error" exactly
\* when the call returned an error, with the Connect code and message when
\* the error is a *connect.Error, and "success" otherwise; WrapUnary returns
\* the response and the error of the wrapped call as they are.
C21_UnaryBracketed ==
  rpc.kind = "unary" =>
    /\ Len(events) >= 1 /\ IsStartEvent(events[1])
    /\ rpc.pc = "started" => rpc.invoked = 0 /\ Len(events) = 1
    /\ rpc.pc = "called" => rpc.invoked = 1 /\ Len(events) = 1
    /\ rpc.pc = "returned" =>
         /\ rpc.invoked = 1 /\ Len(events) = 2
         /\ IsEndEvent(events[2])
         /\ ValueOf(events[2], "status") = StatusFor(rpc.err)
         /\ IF IsConnectError(rpc.err)
            THEN /\ HasField(events[2], "error_code")
                 /\ ValueOf(events[2], "error_code") = rpc.err.code
                 /\ HasField(events[2], "error_message")
                 /\ ValueOf(events[2], "error_message") = rpc.err.msg
            ELSE /\ ~HasField(events[2], "error_code")
                 /\ ~HasField(events[2], "error_message")
         /\ rpc.ret = <<rpc.resp, rpc.err>>

\* C21 witness: a wrapped call that returned a response together with a
\* Connect error, after WrapUnary returned.
C21_Witness ==
  /\ rpc.kind = "unary" /\ rpc.pc = "returned"
  /\ rpc.err = ConnectError /\ ~rpc.resp.nil
  /\ Len(events) = 2
  /\ ValueOf(events[2], "status") = "error"
  /\ ValueOf(events[2], "error_code") = "not_found"
  /\ rpc.ret = <<rpc.resp, ConnectError>>

\* the threshold in force for a configured SlowThreshold
EffectiveThreshold(configured) ==
  IF configured <= 0 THEN DefaultSlowThreshold ELSE configured

\* C22: the end event of a successful unary call is logged at Warn with
\* slow_request = true exactly when the call's duration in milliseconds is
\* strictly greater than the effective threshold (the configured
\* SlowThreshold, or 1000 when that is <= 0); otherwise it is logged at Info
\* without the marker.
C22_SlowIsStrictlyAbove ==
  rpc.kind = "unary" /\ rpc.pc = "returned" /\ rpc.err = NoError =>
    LET e == events[2]
        above == e.timing[1] \div Millisecond
                   > EffectiveThreshold(interceptor.given.SlowThreshold)
    IN IF above
       THEN /\ e.lvl = WarnLevel
            /\ HasField(e, "slow_request")
            /\ ValueOf(e, "slow_request") = "true"
       ELSE e.lvl = InfoLevel /\ ~HasField(e, "slow_request")

\* C22 witness: with SlowThreshold 0 the threshold is 1000; a call of
\* 1000.999999 ms is logged at Info without the marker.
C22_Witness ==
  /\ rpc.kind = "unary" /\ rpc.pc = "returned" /\ rpc.err = NoError
  /\ interceptor.given.SlowThreshold = 0
  /\ events[2].timing = <<1000999999>>
  /\ events[2].lvl = InfoLevel
  /\ ~HasField(events[2], "slow_request")

\* C23: with header logging enabled, every request or response header whose
\* name is sensitive under the sanitizer's check (a built-in pattern or a
\* name added through AddSensitiveField) or under the interceptor's own
\* lists is logged as "[REDACTED]".
C23_SensitiveHeadersRedacted ==
  \A n \in 1..Len(events) :
    \A key \in DOMAIN events[n].headers :
      \/ isSensitiveField(customSensitiveFields, key)
      \/ InterceptorIsSensitive(interceptor.config, key)
      => events[n].headers[key] = <<Redacted>>

\* C25: WrapStreamingHandler logs one start event before the handler runs
\* and one end event after it (Error with status "error" exactly when the
\* handler returned an error, Info with "success" otherwise) and returns
\* the handler's error; WrapStreamingClient logs one start event when the
\* stream is opened, every CloseResponse logs one close event with the
\* total duration and the status, and CloseRequest logs only when closing
\* failed.
C25_StreamsBracketed ==
  /\ rpc.kind = "handler" =>
       /\ Len(events) >= 1 /\ IsStartEvent(events[1])
       /\ events[1].lvl = InfoLevel
       /\ rpc.pc = "started" => rpc.invoked = 0 /\ Len(events) = 1
       /\ rpc.pc = "called" => rpc.invoked = 1 /\ Len(events) = 1
       /\ rpc.pc = "returned" =>
            /\ rpc.invoked = 1 /\ Len(events) = 2
            /\ IsEndEvent(events[2])
            /\ ValueOf(events[2], "status") = StatusFor(rpc.err)
            /\ events[2].lvl
                 = IF rpc.err # NoError THEN ErrorLevel ELSE InfoLevel
            /\ rpc.ret = <<rpc.err>>
  /\ rpc.kind = "client" =>
       /\ rpc.call = "WrapStreamingClient" =>
            Len(events) = 1 /\ IsStartEvent(events[1])
       /\ rpc.call = "CloseResponse" =>
            /\ Len(events) = 1 /\ IsEndEvent(events[1])
            /\ HasField(events[1], "total_duration")
            /\ Len(events[1].timing) = 1
            /\ ValueOf(events[1], "status") = StatusFor(rpc.err)
            /\ rpc.ret = <<rpc.err>>
       /\ rpc.call = "CloseRequest" =>
            /\ Len(events) = (IF rpc.err # NoError THEN 1 ELSE 0)
            /\ \A n \in 1..Len(events) : ~HasField(events[n], "status")
            /\ rpc.ret = <<rpc.err>>

\* C25 witness: a CloseRequest that succeeded and logged nothing, on a
\* stream opened through WrapStreamingClient.
C25_Witness ==
  /\ rpc.kind = "client" /\ rpc.call = "CloseRequest"
  /\ rpc.err = NoError /\ events = <<>>

(***************************************************************************)
(* Part 8: Level.String and ParseLevel (types.go).  A string is the        *)
(* sequence of its characters.                                             *)
(***************************************************************************)
StrDebug == <<"d", "e", "b", "u", "g">>
StrInfo == <<"i", "n", "f", "o">>
StrWarn == <<"w", "a", "r", "n">>
StrError == <<"e", "r", "r", "o", "r">>
StrFatal == <<"f", "a", "t", "a", "l">>
StrUnknown == <<"u", "n", "k", "n", "o", "w", "n">>

\* Level.String
String(l) ==
  CASE l = DebugLevel -> StrDebug
    [] l = InfoLevel -> StrInfo
    [] l = WarnLevel -> StrWarn
    [] l = ErrorLevel -> StrError
    [] l = FatalLevel -> StrFatal
    [] OTHER -> StrUnknown

\* a parser that folds the case of its argument first
ParseLevelFolding(s) ==
  LET t == ToLower(s) IN
  CASE t = StrDebug -> DebugLevel
    [] t = StrInfo -> InfoLevel
    [] t = StrWarn -> WarnLevel
    [] t = StrError -> ErrorLevel
    [] t = StrFatal -> FatalLevel
    [] OTHER -> InfoLevel

ParseLevel(s) ==
  CASE s = StrDebug -> DebugLevel
    [] s = StrInfo -> InfoLevel
    [] s = StrWarn -> WarnLevel
    [] s = StrError -> ErrorLevel
    [] s = StrFatal -> FatalLevel
    [] OTHER -> InfoLevel

\* the values of the type Level handed to String: the five levels and
\* their neighbours
LevelValues == (DebugLevel - 1)..(FatalLevel + 1)

\* the longest string of ParseAlphabet handed to ParseLevel
MaxParseLen == 4

ParseAlphabet == {"W", "a", "r", "n"}

ParseInputs ==
  {StrDebug, StrInfo, StrWarn, StrError, StrFatal, StrUnknown}
  \cup UNION {[1..n -> ParseAlphabet] : n \in 0..MaxParseLen}

LevelFrame ==
  /\ UNCHANGED <<regVars, histVars, logVars, svcVars>>
  /\ UNCHANGED <<customSensitiveFields, opsLog, om, tee, delivery>>

\* ParseLevel(level.String())
RoundTrip(level) ==
  /\ result' = [fn |-> "RoundTrip", arg |-> level, str |-> String(level),
                out |-> ParseLevel(String(level))]
  /\ LevelFrame

Parse(s) ==
  /\ result' = [fn |-> "ParseLevel", arg |-> s, out |-> ParseLevel(s)]
  /\ LevelFrame

InitLevels == RegistryIdle /\ InitLoggersIdle

NextLevels ==
  \/ \E level \in LevelValues : RoundTrip(level)
  \/ \E s \in ParseInputs : Parse(s)

SpecLevels == InitLevels /\ [][NextLevels]_vars

FiveLevels == {DebugLevel, InfoLevel, WarnLevel, ErrorLevel, FatalLevel}

\* C24: ParseLevel(level.String()) is level for each of the five levels,
\* and ParseLevel(s) is InfoLevel for every string s that is not the name
\* of a level, "unknown" included.
C24_ParseInvertsString ==
  /\ result.fn = "RoundTrip" /\ result.arg \in FiveLevels
       => result.out = result.arg
  /\ result.fn = "ParseLevel"
       /\ result.arg \notin {String(l) : l \in FiveLevels}
       => result.out = InfoLevel

\* C24 witness: the round trip of DebugLevel through "debug", the one level
\* below the default.
C24_Witness ==
  /\ result.fn = "RoundTrip" /\ result.arg = DebugLevel
  /\ result.str = StrDebug /\ result.out = DebugLevel

(***************************************************************************)
(* Part 9: the registry's invariants and its configuration (global.go).    *)
(***************************************************************************)
\* C27: GetGlobalLogger never returns nil, after any calls of Get, Set,
\* Replace, restore and Reset in which Set and Replace were handed non-nil
\* loggers.
C27_GetNeverNil == got.valid => got.val # Nil

(***************************************************************************)
(* Part 10: SetLevel among derived loggers.                                *)
(***************************************************************************)
InitFrame ==
  /\ RegistryIdle
  /\ \E via \in Constructors, config \in Configs :
       /\ config.Level \in {DebugLevel, InfoLevel}
       /\ config.Format = "console"
       /\ OneLogger(Construct(via, config))
  /\ sameTick = FALSE

NextFrame ==
  \E i \in Objects :
    \/ WithFields(i, <<Field("k", "v")>>)
    \/ WithService(i, "billing")
    \/ WithContext(i, CtxReq)
    \/ \E level \in {DebugLevel, InfoLevel, WarnLevel} : SetLevel(i, level)

SpecFrame == InitFrame /\ [][NextFrame]_vars

\* what a caller observes of a logger's level: the threshold of its
\* records and the outcome of IfDebug and IfInfo
Threshold(lg) ==
  <<lg.zapLevel, CondActive(lg, DebugLevel), CondActive(lg, InfoLevel)>>

\* the step is a SetLevel on the object i
SetLevelOn(i) ==
  /\ Len(heap') = Len(heap)
  /\ heap'[i].level # heap[i].level \/ heap'[i].setTo # heap[i].setTo

\* WithContext returned the object i when it was called on i
ReturnedItself(i) == heap[i].given # <<>> /\ heap[i].given[2] = i

\* C29: SetLevel on one logger changes that logger only: the threshold and
\* the IfDebug/IfInfo outcome of its parent and of every logger derived
\* from it earlier (by WithFields, WithService or WithContext) stay as they
\* were.
C29_SetLevelLocal ==
  [][\A i \in DOMAIN heap :
       SetLevelOn(i) =>
         /\ \A j \in DOMAIN heap \ {i} : Threshold(heap'[j]) = Threshold(heap[j])
         /\ ReturnedItself(i) => Threshold(heap'[i]) = Threshold(heap[i])]_vars

\* identity of the n-th logger built by CreateLogger for the registry
CreatedBase == 150
CreatedId(n) == CreatedBase + n

\* the configurations handed to SetGlobalLoggerConfig: a single-sink one
\* and one with a file output, whose directory may fail to be created
RegistryConfigs ==
  {LoggerConfig(DebugLevel, "json", FALSE, FALSE, FALSE, FALSE),
   LoggerConfig(WarnLevel, "console", TRUE, TRUE, FALSE, FALSE)}

\* CreateLogger(config) returns an error
CreateFails(config, mkdirFails) ==
  LET mergedConfig == mergeWithDefaults(config) IN
  hasMultipleOutputs(mergedConfig) /\ WithOutputs(mergedConfig, mkdirFails).err

\* a SetGlobalLoggerConfig that stores the configuration before it knows
\* whether the logger could be built
ConfigStoredAnyway(stored, config, failed) == config

\* global.go:134-139  the configuration is stored after CreateLogger
\* succeeded
ConfigAfterCreate(stored, config, failed) ==
  IF failed THEN stored ELSE config

ConfigFrame == UNCHANGED <<logVars, auxVars, interceptor, rpc, events, gw>>

\* SetGlobalLoggerConfig(config) is called
CfgBegin(p, config) ==
  /\ MayCall(p)
  /\ pc' = [pc EXCEPT ![p] = "c_lock"]
  /\ op' = [op EXCEPT ![p] = "config"]
  /\ cfgArg' = [cfgArg EXCEPT ![p] = [fn |-> "SetGlobalLoggerConfig",
                                      config |-> config]]
  /\ calls' = calls + 1
  /\ UNCHANGED <<globalLogger, lockW, onceDone, onceLocked, arg, local,
                 restores, nextId, callLimit, active, crashed>>
  /\ UNCHANGED histVars
  /\ UNCHANGED <<globalConfig, configMu, cfgRet>>
  /\ ConfigFrame

\* global.go:131  globalConfig.mutex.Lock()
CfgLock(p) ==
  /\ pc[p] = "c_lock" /\ ~crashed
  /\ configMu = 0
  /\ configMu' = p
  /\ pc' = [pc EXCEPT ![p] = "c_create"]
  /\ cfgArg' = [cfgArg EXCEPT ![p] =
                  [fn |-> "SetGlobalLoggerConfig", config |-> @.config,
                   configBefore |-> globalConfig,
                   slotBefore |-> globalLogger]]
  /\ UNCHANGED <<globalLogger, lockW, onceDone, onceLocked, op, arg, local,
                 restores, nextId, calls, callLimit, active, crashed>>
  /\ UNCHANGED histVars
  /\ UNCHANGED <<globalConfig, cfgRet>>
  /\ ConfigFrame

\* global.go:134-139  logger, err := CreateLogger(config); on an error the
\* deferred Unlock runs and the error is returned, otherwise the
\* configuration is stored
CfgCreate(p) ==
  /\ pc[p] = "c_create" /\ ~crashed
  /\ \E mkdirFails \in BOOLEAN :
       LET failed == CreateFails(cfgArg[p].config, mkdirFails) IN
       /\ globalConfig' =
            ConfigAfterCreate(globalConfig, cfgArg[p].config, failed)
       /\ IF failed
            THEN /\ configMu' = 0
                 /\ pc' = [pc EXCEPT ![p] = "idle"]
                 /\ op' = [op EXCEPT ![p] = "none"]
                 /\ cfgRet' = [fn |-> "SetGlobalLoggerConfig", err |-> TRUE,
                               call |-> cfgArg[p], logger |-> Nil,
                               config |-> globalConfig',
                               slot |-> globalLogger]
                 /\ cfgArg' = [cfgArg EXCEPT ![p] = NoCfgArg]
                 /\ UNCHANGED <<local, nextId>>
            ELSE /\ local' = [local EXCEPT ![p] = CreatedId(nextId)]
                 /\ nextId' = nextId + 1
                 /\ pc' = [pc EXCEPT ![p] = "c_set"]
                 /\ UNCHANGED <<configMu, op, cfgRet, cfgArg>>
  /\ UNCHANGED <<globalLogger, lockW, onceDone, onceLocked, arg, restores,
                 calls, callLimit, active, crashed>>
  /\ UNCHANGED histVars
  /\ ConfigFrame

\* global.go:140  SetGlobalLogger(logger): Lock(); flush the old logger
CfgSet(p) ==
  /\ pc[p] = "c_set" /\ ~crashed
  /\ CanLock
  /\ lockW' = p
  /\ Flushes(p, SetMustSync(globalLogger))
  /\ pc' = [pc EXCEPT ![p] = "c_store"]
  /\ UNCHANGED <<globalLogger, onceDone, onceLocked, op, arg, local,
                 restores, nextId, calls, callLimit, active, crashed>>
  /\ UNCHANGED <<lastWrite, dirty, got, ctorCount>>
  /\ UNCHANGED <<globalConfig, configMu, cfgArg, cfgRet>>
  /\ ConfigFrame

\* global.go:45 inside SetGlobalLogger, its deferred Unlock, and the
\* return of nil with the deferred Unlock of global.go:132
CfgStore(p) ==
  /\ pc[p] = "c_store" /\ ~crashed
  /\ globalLogger' = SetInstalls(local[p], globalLogger, synced[p].err)
  /\ lockW' = 0
  /\ configMu' = 0
  /\ pc' = [pc EXCEPT ![p] = "idle"]
  /\ op' = [op EXCEPT ![p] = "none"]
  /\ local' = [local EXCEPT ![p] = Nil]
  /\ synced' = [synced EXCEPT ![p] = NoSync]
  /\ lastWrite' = [op |-> "config", val |-> local[p], old |-> globalLogger,
                   sync |-> synced[p], installed |-> globalLogger']
  /\ Disturbs
  /\ cfgRet' = [fn |-> "SetGlobalLoggerConfig", err |-> FALSE,
                call |-> cfgArg[p], logger |-> local[p],
                config |-> globalConfig, slot |-> globalLogger']
  /\ cfgArg' = [cfgArg EXCEPT ![p] = NoCfgArg]
  /\ UNCHANGED <<onceDone, onceLocked, arg, restores, nextId, calls,
                 callLimit, active, crashed>>
  /\ UNCHANGED ctorCount
  /\ UNCHANGED globalConfig
  /\ ConfigFrame

ConfigStep(p) ==
  \/ \E config \in RegistryConfigs : CfgBegin(p, config)
  \/ CfgLock(p) \/ CfgCreate(p) \/ CfgSet(p) \/ CfgStore(p)

\* UpdateGlobalLogLevel(level) is called
UpdBegin(p, level) ==
  /\ MayCall(p)
  /\ pc' = [pc EXCEPT ![p] = "u_lock"]
  /\ op' = [op EXCEPT ![p] = "update"]
  /\ cfgArg' = [cfgArg EXCEPT ![p] = [fn |-> "UpdateGlobalLogLevel",
                                      level |-> level]]
  /\ calls' = calls + 1
  /\ UNCHANGED <<globalLogger, lockW, onceDone, onceLocked, arg, local,
                 restores, nextId, callLimit, active, crashed>>
  /\ UNCHANGED histVars
  /\ UNCHANGED <<globalConfig, configMu, cfgRet>>
  /\ ConfigFrame

\* global.go:154-157  globalConfig.mutex.Lock(); config.Level = level
UpdLock(p) ==
  /\ pc[p] = "u_lock" /\ ~crashed
  /\ configMu = 0
  /\ configMu' = p
  /\ globalConfig' = [globalConfig EXCEPT !.Level = cfgArg[p].level]
  /\ pc' = [pc EXCEPT ![p] = "u_get"]
  /\ UNCHANGED <<globalLogger, lockW, onceDone, onceLocked, op, arg, local,
                 restores, nextId, calls, callLimit, active, crashed>>
  /\ UNCHANGED histVars
  /\ UNCHANGED <<cfgArg, cfgRet>>
  /\ ConfigFrame

\* global.go:158  GetGlobalLogger(): the first load of the slot
\* (global.go:19-28); the call goes on as every GetGlobalLogger does
UpdGet(p) ==
  /\ pc[p] = "u_get" /\ ~crashed
  /\ CanRLock
  /\ IF GetFastPath(globalLogger)
       THEN /\ got' = [valid |-> TRUE, val |-> globalLogger,
                       settled |-> TRUE]
            /\ pc' = [pc EXCEPT ![p] = "u_level"]
            /\ arg' = [arg EXCEPT ![p] = globalLogger]
       ELSE /\ pc' = [pc EXCEPT ![p] = "o_do"]
            /\ UNCHANGED <<got, arg>>
  /\ UNCHANGED <<globalLogger, lockW, onceDone, onceLocked, op, local,
                 restores, nextId, calls, callLimit, active, crashed>>
  /\ UNCHANGED <<lastWrite, dirty, synced, ctorCount>>
  /\ UNCHANGED <<globalConfig, configMu, cfgArg, cfgRet>>
  /\ ConfigFrame

\* global.go:158  .SetLevel(level) on the logger returned, which panics on
\* a nil logger; the deferred Unlock of global.go:155 runs either way
UpdLevel(p) ==
  /\ pc[p] = "u_level" /\ ~crashed
  /\ configMu' = 0
  /\ pc' = [pc EXCEPT ![p] = "idle"]
  /\ op' = [op EXCEPT ![p] = "none"]
  /\ arg' = [arg EXCEPT ![p] = Nil]
  /\ cfgRet' = [fn |-> "UpdateGlobalLogLevel", err |-> FALSE,
                call |-> cfgArg[p], logger |-> arg[p],
                panicked |-> arg[p] = Nil,
                config |-> globalConfig, slot |-> globalLogger]
  /\ cfgArg' = [cfgArg EXCEPT ![p] = NoCfgArg]
  /\ UNCHANGED <<globalLogger, lockW, onceDone, onceLocked, local,
                 restores, nextId, calls, callLimit, active, crashed>>
  /\ UNCHANGED histVars
  /\ UNCHANGED globalConfig
  /\ ConfigFrame

UpdateStep(p) ==
  \/ \E level \in {ErrorLevel} : UpdBegin(p, level)
  \/ UpdLock(p) \/ UpdGet(p) \/ UpdLevel(p)

\* Cleanup, global.go:210-220: one load of the slot under the read lock,
\* then Sync on the logger read
Cleanup(p) ==
  /\ MayCall(p)
  /\ CanRLock
  /\ calls' = calls + 1
  /\ \E e \in (IF globalLogger = Nil THEN {FALSE}
               ELSE SyncErrors(globalLogger)) :
       cfgRet' = [fn |-> "Cleanup", err |-> e, call |-> NoCfgArg,
                  logger |-> globalLogger, config |-> globalConfig,
                  slot |-> globalLogger]
  /\ UNCHANGED <<globalLogger, lockW, onceDone, onceLocked, pc, op, arg,
                 local, restores, nextId, callLimit, active, crashed>>
  /\ UNCHANGED histVars
  /\ UNCHANGED <<globalConfig, configMu, cfgArg>>
  /\ ConfigFrame

\* the most calls of a run of one goroutine, and of a concurrent run
MaxSeqCalls == 5
MaxConfigCalls == 3

NextConfig ==
  \E p \in Procs :
    \/ GetStep(p) \/ SetStep(p) \/ ReplaceSwap(p) \/ ResetStep(p)
    \/ ConfigStep(p) \/ UpdateStep(p) \/ Cleanup(p)

\* one goroutine calls the registry functions one after the other
InitSeq ==
  /\ InitSlots /\ callLimit = MaxSeqCalls /\ active = {1}
  /\ InitLoggersIdle

SpecSeq == InitSeq /\ [][NextConfig]_vars

\* the goroutines call the registry functions concurrently
InitConfig ==
  /\ InitSlots /\ callLimit = MaxConfigCalls /\ active = 1..NumBusy
  /\ InitLoggersIdle

SpecConfig == InitConfig /\ [][NextConfig]_vars

\* every goroutine that can take a step eventually takes one
FairSpecConfig ==
  /\ SpecConfig
  /\ \A p \in Procs :
       WF_vars(GetStep(p) \/ SetStep(p) \/ ReplaceSwap(p) \/ ResetStep(p)
               \/ ConfigStep(p) \/ UpdateStep(p) \/ Cleanup(p))

\* C26: a SetGlobalLoggerConfig whose CreateLogger fails returns the error
\* and leaves the stored configuration and the global logger as they were
\* when it was called; one that succeeds leaves the stored configuration
\* equal to its argument and the newly created logger in the slot.
C26_ConfigAllOrNothing ==
  cfgRet.fn = "SetGlobalLoggerConfig" =>
    IF cfgRet.err
      THEN /\ cfgRet.config = cfgRet.call.configBefore
           /\ cfgRet.slot = cfgRet.call.slotBefore
           /\ cfgRet.logger = Nil
      ELSE /\ cfgRet.config = cfgRet.call.config
           /\ cfgRet.slot = cfgRet.logger
           /\ cfgRet.logger # Nil
           /\ cfgRet.logger # cfgRet.call.slotBefore

\* C26 witness: a failed call after a successful one: the configuration
\* and the logger of the first call are still in place.
C26_Witness ==
  /\ cfgRet.fn = "SetGlobalLoggerConfig" /\ cfgRet.err
  /\ cfgRet.config = LoggerConfig(DebugLevel, "json", FALSE, FALSE, FALSE,
                                  FALSE)
  /\ cfgRet.call.config # cfgRet.config
  /\ cfgRet.slot = CreatedId(0)
  /\ globalLogger = CreatedId(0) /\ globalConfig = cfgRet.config

\* the config mutex is not requested by a goroutine that holds the logger
\* lock or runs inside globalInitOnce
LockOrder ==
  \A p \in Procs :
    pc[p] \in {"c_lock", "u_lock"} => lockW # p

\* C28: the registry is deadlock-free: the config mutex and the logger
\* lock are never taken in conflicting orders, and every call of Get, Set,
\* Replace, restore, Reset, SetGlobalLoggerConfig, UpdateGlobalLogLevel and
\* Cleanup eventually returns, under every interleaving.
C28_EveryCallReturns ==
  /\ []LockOrder
  /\ \A p \in Procs : (pc[p] # "idle") ~> (pc[p] = "idle")

(***************************************************************************)
(* Part 11: the gateway's GetUserWithOrders (service/gateway/service.go).  *)
(* The two functions handed to the errgroup run as two goroutines; each    *)
(* fetch is one step, taken when its upstream call returns.                *)
(***************************************************************************)
UserIDs == {"u1", "u2"}

\* the most orders the order service returns
MaxOrders == 2

\* *userv1.User as the user service returns it
User(userID) == [Id |-> userID, Username |-> "name-of-" \o userID]
NoUser == [Id |-> "", Username |-> ""]

Order(id, items, status) ==
  [Id |-> id, Items |-> items, Status |-> status]

OrderValues ==
  {Order("o1", <<>>, "PENDING"),
   Order("o2", <<[ProductId |-> "p1", Quantity |-> 2]>>, "SHIPPED"),
   Order("o3", <<[ProductId |-> "p1", Quantity |-> 1],
                 [ProductId |-> "p2", Quantity |-> 3]>>, "PENDING")}

OrderLists == UNION {[1..n -> OrderValues] : n \in 0..MaxOrders}

\* OrderStatus.String()
StatusString(status) ==
  CASE status = "PENDING" -> "ORDER_STATUS_PENDING"
    [] status = "SHIPPED" -> "ORDER_STATUS_SHIPPED"
    [] OTHER -> "ORDER_STATUS_UNSPECIFIED"

\* connect.NewError(connect.CodeNotFound, fmt.Errorf("user not found: %w"))
UserNotFound ==
  [kind |-> "connect", code |-> "not_found", msg |-> "user not found"]

\* service.go:76-98  the conversion of the orders
OrderInfos(orders) ==
  [n \in 1..Len(orders) |->
     [Id |-> orders[n].Id,
      Items |-> [m \in 1..Len(orders[n].Items) |->
                   [ProductId |-> orders[n].Items[m].ProductId,
                    Quantity |-> orders[n].Items[m].Quantity]],
      Status |-> StatusString(orders[n].Status)]]

\* service.go:66-104  the response
Response(user, orders) ==
  [User |-> [Id |-> user.Id, Username |-> user.Username],
   Orders |-> OrderInfos(orders),
   TotalOrders |-> Len(OrderInfos(orders))]

NoReturn == [resp |-> <<>>, err |-> NoError]

\* a Wait that returns as soon as the user fetch has finished
UserDone(userFetch, orderFetch) == userFetch # "pending"

\* errgroup.Wait: both goroutines have returned
GroupDone(userFetch, orderFetch) ==
  userFetch # "pending" /\ orderFetch # "pending"

GatewayFrame ==
  /\ UNCHANGED <<regVars, histVars, logVars, auxVars>>
  /\ UNCHANGED <<interceptor, rpc, events, globalConfig, configMu, cfgArg,
                 cfgRet>>

\* service.go:26-57  the call starts both goroutines
GwBegin(userID) ==
  /\ gw.pc \in {"idle", "returned"}
  /\ gw' = [pc |-> "waiting", userID |-> userID,
            userFetch |-> "pending", orderFetch |-> "pending",
            user |-> NoUser, orders |-> <<>>, gerr |-> NoError,
            cancelled |-> FALSE, first |-> "none", ret |-> NoReturn]
  /\ GatewayFrame

\* service.go:35-43  the first goroutine: store.GetUser returned; a
\* failure becomes the group's error and cancels gCtx
UserFetch(ok) ==
  /\ gw.pc = "waiting" /\ gw.userFetch = "pending"
  /\ gw' = [gw EXCEPT
       !.userFetch = IF ok THEN "ok" ELSE "failed",
       !.user = IF ok THEN User(gw.userID) ELSE NoUser,
       !.gerr = IF ok THEN @ ELSE UserNotFound,
       !.cancelled = ~ok,
       !.first = IF @ = "none" THEN "user" ELSE @]
  /\ GatewayFrame

\* service.go:46-57  the second goroutine: store.ListUserOrders returned
\* the orders, or nil with an error, which the goroutine only logs
OrderFetch(ok, orders) ==
  /\ gw.pc = "waiting" /\ gw.orderFetch = "pending"
  /\ ~ok => orders = <<>>
  /\ gw' = [gw EXCEPT
       !.orderFetch = IF ok THEN "ok" ELSE "failed",
       !.orders = orders,
       !.first = IF @ = "none" THEN "orders" ELSE @]
  /\ GatewayFrame

\* service.go:60-104  g.Wait() returned: the error of the group, or the
\* response built from what the goroutines stored
GwReturn ==
  /\ gw.pc = "waiting"
  /\ GroupDone(gw.userFetch, gw.orderFetch)
  /\ gw' = [gw EXCEPT
       !.pc = "returned",
       !.ret = IF gw.gerr # NoError
                 THEN [resp |-> <<>>, err |-> gw.gerr]
                 ELSE [resp |-> <<Response(gw.user, gw.orders)>>,
                       err |-> NoError]]
  /\ GatewayFrame

InitGateway == RegistryIdle /\ InitLoggersIdle

NextGateway ==
  \/ \E userID \in UserIDs : GwBegin(userID)
  \/ \E ok \in BOOLEAN : UserFetch(ok)
  \/ \E ok \in BOOLEAN, orders \in OrderLists : OrderFetch(ok, orders)
  \/ GwReturn

SpecGateway == InitGateway /\ [][NextGateway]_vars

\* C30: GetUserWithOrders runs the two fetches concurrently and returns
\* only after both have finished; it returns an error, the NotFound Connect
\* error, exactly when the user fetch failed, whichever fetch finished
\* first; when only the order fetch failed it returns the user with an
\* empty order list; TotalOrders is the number of orders in the response.
C30_GatewayJoinsBoth ==
  /\ gw.pc = "waiting" =>
       (gw.userFetch = "pending" \/ gw.orderFetch = "pending"
        \/ gw.ret = NoReturn)
  /\ gw.pc = "returned" =>
       /\ gw.userFetch # "pending" /\ gw.orderFetch # "pending"
       /\ (gw.ret.err # NoError) = (gw.userFetch = "failed")
       /\ gw.ret.err # NoError =>
            /\ gw.ret.resp = <<>>
            /\ gw.ret.err.kind = "connect" /\ gw.ret.err.code = "not_found"
       /\ gw.ret.err = NoError =>
            LET resp == gw.ret.resp[1] IN
            /\ resp.User.Id = gw.userID
            /\ resp.TotalOrders = Len(resp.Orders)
            /\ Len(resp.Orders) = Len(gw.orders)
            /\ \A n \in 1..Len(resp.Orders) :
                 resp.Orders[n].Id = gw.orders[n].Id
            /\ gw.orderFetch = "failed" =>
                 resp.Orders = <<>> /\ resp.TotalOrders = 0

\* C30 witness: the order fetch finished first and succeeded with two
\* orders, the user fetch failed afterwards, and the call returned the
\* error.
C30_Witness ==
  /\ gw.pc = "returned" /\ gw.first = "orders"
  /\ gw.orderFetch = "ok" /\ Len(gw.orders) = MaxOrders
  /\ gw.userFetch = "failed"
  /\ gw.ret = [resp |-> <<>>, err |-> UserNotFound]

====
